---- MODULE Spec2Model ----
(***************************************************************************)
(* Ledger model of maria_manjaka_backend: accounts (compte), transactions  *)
(* and banking operations (transactionBancaire), with the request handlers *)
(* of transactionController.js, transactionBancaireController.js and the   *)
(* balance logic of services/transactionService.js.                        *)
(*                                                                         *)
(* Amounts are integers (one unit = one cent of the DECIMAL(15,2) column). *)
(* A request body field that the handler tests by truthiness is modelled   *)
(* with 0 (numbers, ids) or "" (enum strings) for "absent": the code       *)
(* cannot tell the two apart.  Text is a sequence of one-character         *)
(* strings; Null (the empty text where the code stores `x || null`) and    *)
(* Undefined (field not in the body) are kept distinct.                    *)
(***************************************************************************)
EXTENDS Integers, Sequences, FiniteSets, TLC

VARIABLES
    db,             \* the database: comptes, transactions, transactionsBancaires, ...
    soldeInitial,   \* history: soldeActuel of every compte in the initial state
    last,           \* history: the last request served [op, status, id, ancien]
    rt,             \* history: a create immediately followed by the delete of the same row
    liees,          \* history: updates that took the banking-linked branch so far
    unite,          \* the prisma.$transaction in flight: its writes, not yet committed
    requetes,       \* the requests served at the same time, each at its own statement
    cache,          \* middleware/cache.js: the Map of cached responses, in insertion order
    horloge,        \* Date.now(), in units of ten seconds
    recues          \* GET requests received so far

vars == <<db, soldeInitial, last, rt, liees, unite, requetes, cache, horloge, recues>>

----------------------------------------------------------------------------
(* Bounds of the model *)

MaxTx == 1          \* transaction ids handed out (SERIAL) in a behaviour
MaxTb == 2          \* transactionBancaire ids handed out in a behaviour
MaxMontant == 2     \* amounts in requests range over 1..MaxMontant (and -1, 0)
MaxPatchFields == 2 \* fields a single update request changes at most
MaxUnites == 1      \* units of work followed write by write in a behaviour
MaxAlimentations == 2  \* fundings of a secretary account in a behaviour
MaxDate == 3           \* days a transaction can be dated
MaxRecapTx == 2        \* transactions a recapitulation is drawn from
MaxLiees == 1       \* banking-linked transaction updates in a behaviour
MaxRequetes == 2    \* requests in flight at the same time
MaxCycles == 2      \* movements applied to DECIMAL(15,2) balances in a behaviour

----------------------------------------------------------------------------
(* Values *)

Null == <<>>
Undefined == <<"undefined">>

Abs(x) == IF x < 0 THEN -x ELSE x

Put(f, k, v) == [x \in (DOMAIN f) \cup {k} |-> IF x = k THEN v ELSE f[x]]
Remove(f, k) == [x \in (DOMAIN f) \ {k} |-> f[x]]
EmptyTable == [x \in {} |-> x]

\* compte ids in the order the rows are inserted (SERIAL)
CaisseId == 1
BanqueId == CaisseId + 1
SecretaireId == BanqueId + 1
CompteIds == {CaisseId, BanqueId, SecretaireId}
AbsentCompteId == SecretaireId + 1   \* an id no compte row has

AdminUserId == 1
SecretaireUserId == AdminUserId + 1

\* user rows: role and compte_secretaire_id (0 = NULL)
Users ==
    [u \in {AdminUserId, SecretaireUserId} |->
        IF u = AdminUserId
        THEN [role |-> "ADMIN", compteSecretaireId |-> 0]
        ELSE [role |-> "SECRETAIRE", compteSecretaireId |-> SecretaireId]]

\* categorie rows; nom is the sequence of its words
Categories ==
    [c \in {1, 2} |->
        IF c = 1
        THEN [nom |-> <<"Fandaniana">>, type |-> "DEPENSE"]
        ELSE [nom |-> <<"Fikambanana", "Masina">>, type |-> "RECETTE"]]

\* sous_categorie rows
SousCategories == [s \in {1, 2} |-> [categorieId |-> s]]

toLowerCase(w) ==
    CASE w = "Fikambanana" -> "fikambanana"
      [] w = "Masina" -> "masina"
      [] w = "Fandaniana" -> "fandaniana"
      [] OTHER -> w

includes(nom, w) == \E i \in 1..Len(nom) : toLowerCase(nom[i]) = w

isFikambananaMasina(categorie) ==
    includes(categorie.nom, "fikambanana") /\ includes(categorie.nom, "masina")

----------------------------------------------------------------------------
(* extractChequeNumber: description.match(/CHQ-([\w-]+)/) *)

Letters == {"a","b","c","d","e","f","g","h","i","j","k","l","m","n","o","p","q",
            "r","s","t","u","v","w","x","y","z","A","B","C","D","E","F","G","H",
            "I","J","K","L","M","N","O","P","Q","R","S","T","U","V","W","X","Y","Z"}
Digits == {"0","1","2","3","4","5","6","7","8","9"}
WordChars == Letters \cup Digits \cup {"_"}
ChequeChars == WordChars \cup {"-"}

RECURSIVE CaptureEnd(_, _)
CaptureEnd(s, i) ==
    IF i <= Len(s) /\ s[i] \in ChequeChars THEN CaptureEnd(s, i + 1) ELSE i - 1

MatchAt(s, i) ==
    /\ i + 4 <= Len(s)
    /\ SubSeq(s, i, i + 3) = <<"C", "H", "Q", "-">>
    /\ s[i + 4] \in ChequeChars

extractChequeNumber(description) ==
    IF description = Null THEN Null
    ELSE LET starts == {i \in 1..Len(description) : MatchAt(description, i)}
         IN IF starts = {} THEN Null
            ELSE LET i == CHOOSE k \in starts : \A j \in starts : k <= j
                 IN SubSeq(description, i + 4, CaptureEnd(description, i + 4))

Cheque1 == <<"1">>
Cheque2 == <<"2">>
Descriptions ==
    { Null,
      <<"C", "H", "Q", "-", "1">>,
      <<"x", " ", "C", "H", "Q", "-", "2", " ", "y">> }

----------------------------------------------------------------------------
(* Database helpers *)

Increment(d, compteId, x) ==
    [d EXCEPT !.comptes[compteId].soldeActuel = @ + x]

SetSolde(d, compteId, x) ==
    [d EXCEPT !.comptes[compteId].soldeActuel = x]

\* prisma.compte.findFirst({ where: { type: 'CAISSE' } }): no orderBy, so any
\* matching row may be returned; {0} stands for the null result
findFirstCaisse(d) ==
    LET found == {c \in DOMAIN d.comptes : d.comptes[c].type = "CAISSE"}
    IN IF found = {} THEN {0} ELSE found

\* prisma.transactionBancaire.findFirst({ where: { numeroCheque } })
findFirstCheque(d, numeroCheque) ==
    LET found == {b \in DOMAIN d.transactionsBancaires :
                    d.transactionsBancaires[b].numeroCheque = numeroCheque}
    IN IF found = {} THEN {0} ELSE found

Soldes(d) == [c \in DOMAIN d.comptes |-> d.comptes[c].soldeActuel]

----------------------------------------------------------------------------
(* services/transactionService.js *)

\* variant: the amount is always taken off the account, whatever the type
createTransactionWithBalanceDebit(d, transactionData) ==
    LET id == d.txSeq + 1
        d1 == [d EXCEPT !.transactions = Put(@, id, transactionData), !.txSeq = id]
        compte == d1.comptes[transactionData.compteId]
        nouveauSolde == compte.soldeActuel - Abs(transactionData.montant)
    IN [id |-> id, db |-> SetSolde(d1, transactionData.compteId, nouveauSolde)]

createTransactionWithBalance(d, transactionData) ==
    LET id == d.txSeq + 1
        d1 == [d EXCEPT !.transactions = Put(@, id, transactionData), !.txSeq = id]
        compte == d1.comptes[transactionData.compteId]
        montantAjouter == IF transactionData.type = "RECETTE"
                          THEN Abs(transactionData.montant)
                          ELSE -Abs(transactionData.montant)
        nouveauSolde == compte.soldeActuel + montantAjouter
    IN [id |-> id, db |-> SetSolde(d1, transactionData.compteId, nouveauSolde)]

\* tx.transaction.update({ data: updateData }): only the keys present are written
ApplyUpdateData(row, updateData) ==
    [categorieId |-> IF updateData.categorieId # 0
                     THEN updateData.categorieId ELSE row.categorieId,
     sousCategorieId |-> updateData.sousCategorieId,
     compteId |-> IF updateData.compteId # 0 THEN updateData.compteId ELSE row.compteId,
     dateTransaction |-> IF updateData.dateTransaction # 0
                         THEN updateData.dateTransaction ELSE row.dateTransaction,
     description |-> IF updateData.description # Undefined
                     THEN updateData.description ELSE row.description,
     montant |-> IF updateData.montant # 0 THEN updateData.montant ELSE row.montant,
     type |-> IF updateData.type # "" THEN updateData.type ELSE row.type]

\* foreign keys of the transaction table (compte_id is the only one the
\* controller does not look up before the write)
TransactionForeignKeysHold(d, row) ==
    /\ row.compteId \in DOMAIN d.comptes
    /\ row.categorieId \in DOMAIN d.categories
    /\ row.sousCategorieId \in DOMAIN d.sousCategories

\* the same without the new pair-movement (lines 171-178 left out)
updateTransactionBancaireLieeSansReapplication(d, id, updateData, compteCaisse, tb) ==
    LET oldTransaction == d.transactions[id]
        oldChequeNumber == extractChequeNumber(oldTransaction.description)
        newDescription == IF updateData.description # Undefined
                          THEN updateData.description ELSE oldTransaction.description
        newChequeNumber == extractChequeNumber(newDescription)
        nouveauMontant == IF updateData.montant # 0
                          THEN updateData.montant ELSE oldTransaction.montant
        nouveauType == IF updateData.type # "" THEN updateData.type ELSE oldTransaction.type
        oldMontant == oldTransaction.montant
        transactionBancaire == d.transactionsBancaires[tb]
        compteBanque == transactionBancaire.compteId
        dateOperation == IF updateData.dateTransaction # 0
                         THEN updateData.dateTransaction
                         ELSE transactionBancaire.dateOperation
        d1 == Increment(Increment(d, compteBanque, oldMontant), compteCaisse, -oldMontant)
        d2 == IF newChequeNumber # Null /\ newChequeNumber # oldChequeNumber
              THEN [d1 EXCEPT
                      !.transactionsBancaires =
                          Put(Remove(@, tb), d1.tbSeq + 1,
                              [compteId |-> compteBanque,
                               dateOperation |-> dateOperation,
                               description |-> newDescription,
                               montant |-> nouveauMontant,
                               type |-> "RETRAIT",
                               numeroCheque |-> newChequeNumber]),
                      !.tbSeq = @ + 1]
              ELSE [d1 EXCEPT
                      !.transactionsBancaires[tb] =
                          [@ EXCEPT !.montant = nouveauMontant,
                                    !.description = newDescription,
                                    !.dateOperation = dateOperation,
                                    !.numeroCheque = IF newChequeNumber # Null
                                                     THEN newChequeNumber
                                                     ELSE oldChequeNumber]]
        d3 == d2
        montantAnnuler == IF oldTransaction.type = "RECETTE"
                          THEN -Abs(oldMontant) ELSE Abs(oldMontant)
        updatedTransaction == ApplyUpdateData(oldTransaction, updateData)
        d4 == [d3 EXCEPT !.transactions[id] = updatedTransaction]
        montantAjouter == IF nouveauType = "RECETTE"
                          THEN Abs(nouveauMontant) ELSE -Abs(nouveauMontant)
        soldeCaisseActuel == d4.comptes[compteCaisse].soldeActuel
        nouveauSoldeCaisse == soldeCaisseActuel + montantAnnuler + montantAjouter
    IN IF ~TransactionForeignKeysHold(d, updatedTransaction)
       THEN [err |-> "P2003", db |-> d]
       ELSE [err |-> "", db |-> SetSolde(d4, compteCaisse, nouveauSoldeCaisse)]

\* the same, the banking operation always updated in place (lines 137-155 left out)
updateTransactionBancaireLieeSurPlace(d, id, updateData, compteCaisse, tb) ==
    LET oldTransaction == d.transactions[id]
        oldChequeNumber == extractChequeNumber(oldTransaction.description)
        newDescription == IF updateData.description # Undefined
                          THEN updateData.description ELSE oldTransaction.description
        newChequeNumber == extractChequeNumber(newDescription)
        nouveauMontant == IF updateData.montant # 0
                          THEN updateData.montant ELSE oldTransaction.montant
        nouveauType == IF updateData.type # "" THEN updateData.type ELSE oldTransaction.type
        oldMontant == oldTransaction.montant
        transactionBancaire == d.transactionsBancaires[tb]
        compteBanque == transactionBancaire.compteId
        dateOperation == IF updateData.dateTransaction # 0
                         THEN updateData.dateTransaction
                         ELSE transactionBancaire.dateOperation
        d1 == Increment(Increment(d, compteBanque, oldMontant), compteCaisse, -oldMontant)
        d2 == IF FALSE
              THEN [d1 EXCEPT
                      !.transactionsBancaires =
                          Put(Remove(@, tb), d1.tbSeq + 1,
                              [compteId |-> compteBanque,
                               dateOperation |-> dateOperation,
                               description |-> newDescription,
                               montant |-> nouveauMontant,
                               type |-> "RETRAIT",
                               numeroCheque |-> newChequeNumber]),
                      !.tbSeq = @ + 1]
              ELSE [d1 EXCEPT
                      !.transactionsBancaires[tb] =
                          [@ EXCEPT !.montant = nouveauMontant,
                                    !.description = newDescription,
                                    !.dateOperation = dateOperation,
                                    !.numeroCheque = IF newChequeNumber # Null
                                                     THEN newChequeNumber
                                                     ELSE oldChequeNumber]]
        d3 == Increment(Increment(d2, compteBanque, -nouveauMontant),
                        compteCaisse, nouveauMontant)
        montantAnnuler == IF oldTransaction.type = "RECETTE"
                          THEN -Abs(oldMontant) ELSE Abs(oldMontant)
        updatedTransaction == ApplyUpdateData(oldTransaction, updateData)
        d4 == [d3 EXCEPT !.transactions[id] = updatedTransaction]
        montantAjouter == IF nouveauType = "RECETTE"
                          THEN Abs(nouveauMontant) ELSE -Abs(nouveauMontant)
        soldeCaisseActuel == d4.comptes[compteCaisse].soldeActuel
        nouveauSoldeCaisse == soldeCaisseActuel + montantAnnuler + montantAjouter
    IN IF ~TransactionForeignKeysHold(d, updatedTransaction)
       THEN [err |-> "P2003", db |-> d]
       ELSE [err |-> "", db |-> SetSolde(d4, compteCaisse, nouveauSoldeCaisse)]

\* the banking-linked branch (transactionService.js lines 121-239)
updateTransactionBancaireLiee(d, id, updateData, compteCaisse, tb) ==
    LET oldTransaction == d.transactions[id]
        oldChequeNumber == extractChequeNumber(oldTransaction.description)
        newDescription == IF updateData.description # Undefined
                          THEN updateData.description ELSE oldTransaction.description
        newChequeNumber == extractChequeNumber(newDescription)
        nouveauMontant == IF updateData.montant # 0
                          THEN updateData.montant ELSE oldTransaction.montant
        nouveauType == IF updateData.type # "" THEN updateData.type ELSE oldTransaction.type
        oldMontant == oldTransaction.montant
        transactionBancaire == d.transactionsBancaires[tb]
        compteBanque == transactionBancaire.compteId
        dateOperation == IF updateData.dateTransaction # 0
                         THEN updateData.dateTransaction
                         ELSE transactionBancaire.dateOperation
        d1 == Increment(Increment(d, compteBanque, oldMontant), compteCaisse, -oldMontant)
        d2 == IF newChequeNumber # Null /\ newChequeNumber # oldChequeNumber
              THEN [d1 EXCEPT
                      !.transactionsBancaires =
                          Put(Remove(@, tb), d1.tbSeq + 1,
                              [compteId |-> compteBanque,
                               dateOperation |-> dateOperation,
                               description |-> newDescription,
                               montant |-> nouveauMontant,
                               type |-> "RETRAIT",
                               numeroCheque |-> newChequeNumber]),
                      !.tbSeq = @ + 1]
              ELSE [d1 EXCEPT
                      !.transactionsBancaires[tb] =
                          [@ EXCEPT !.montant = nouveauMontant,
                                    !.description = newDescription,
                                    !.dateOperation = dateOperation,
                                    !.numeroCheque = IF newChequeNumber # Null
                                                     THEN newChequeNumber
                                                     ELSE oldChequeNumber]]
        d3 == Increment(Increment(d2, compteBanque, -nouveauMontant),
                        compteCaisse, nouveauMontant)
        montantAnnuler == IF oldTransaction.type = "RECETTE"
                          THEN -Abs(oldMontant) ELSE Abs(oldMontant)
        updatedTransaction == ApplyUpdateData(oldTransaction, updateData)
        d4 == [d3 EXCEPT !.transactions[id] = updatedTransaction]
        montantAjouter == IF nouveauType = "RECETTE"
                          THEN Abs(nouveauMontant) ELSE -Abs(nouveauMontant)
        soldeCaisseActuel == d4.comptes[compteCaisse].soldeActuel
        nouveauSoldeCaisse == soldeCaisseActuel + montantAnnuler + montantAjouter
    IN IF ~TransactionForeignKeysHold(d, updatedTransaction)
       THEN [err |-> "P2003", db |-> d]
       ELSE [err |-> "", db |-> SetSolde(d4, compteCaisse, nouveauSoldeCaisse)]

\* the plain branch (transactionService.js lines 242-301)
\* variant: the new effect is applied, the old one is not taken back
updateTransactionSimpleSansAnnulation(d, id, updateData) ==
    LET oldTransaction == d.transactions[id]
        updatedTransaction == ApplyUpdateData(oldTransaction, updateData)
        montantAjouter == IF updatedTransaction.type = "RECETTE"
                          THEN Abs(updatedTransaction.montant)
                          ELSE -Abs(updatedTransaction.montant)
    IN IF ~TransactionForeignKeysHold(d, updatedTransaction)
       THEN [err |-> "P2003", db |-> d]
       ELSE [err |-> "",
             db |-> Increment([d EXCEPT !.transactions[id] = updatedTransaction],
                              updatedTransaction.compteId, montantAjouter)]

updateTransactionSimple(d, id, updateData) ==
    LET oldTransaction == d.transactions[id]
        nouveauMontant == IF updateData.montant # 0
                          THEN updateData.montant ELSE oldTransaction.montant
        nouveauType == IF updateData.type # "" THEN updateData.type ELSE oldTransaction.type
        nouveauCompteId == IF updateData.compteId # 0
                           THEN updateData.compteId ELSE oldTransaction.compteId
        oldMontant == oldTransaction.montant
        ancienCompte == d.comptes[oldTransaction.compteId]
        montantAnnuler == IF oldTransaction.type = "RECETTE"
                          THEN -Abs(oldMontant) ELSE Abs(oldMontant)
        soldeAncienCompteApresAnnulation == ancienCompte.soldeActuel + montantAnnuler
        updatedTransaction == ApplyUpdateData(oldTransaction, updateData)
        d1 == [d EXCEPT !.transactions[id] = updatedTransaction]
        montantAjouter == IF nouveauType = "RECETTE"
                          THEN Abs(nouveauMontant) ELSE -Abs(nouveauMontant)
        d2 == SetSolde(d1, oldTransaction.compteId, soldeAncienCompteApresAnnulation)
    IN IF ~TransactionForeignKeysHold(d, updatedTransaction)
       THEN [err |-> "P2003", db |-> d]
       ELSE IF nouveauCompteId # oldTransaction.compteId
       THEN [err |-> "",
             db |-> SetSolde(d2, nouveauCompteId,
                             d2.comptes[nouveauCompteId].soldeActuel + montantAjouter)]
       ELSE [err |-> "",
             db |-> SetSolde(d1, nouveauCompteId,
                             soldeAncienCompteApresAnnulation + montantAjouter)]

isTransactionBancaire(description, type) ==
    extractChequeNumber(description) # Null /\ type = "DEPENSE"

\* the same, but a missing banking operation makes the update fail
updateTransactionWithBalanceSansDegradation(d, id, updateData, compteCaisse, tb) ==
    IF id \notin DOMAIN d.transactions
    THEN [err |-> "Transaction non trouvee", db |-> d]
    ELSE
    LET oldTransaction == d.transactions[id]
        newDescription == IF updateData.description # Undefined
                          THEN updateData.description ELSE oldTransaction.description
        nouveauType == IF updateData.type # "" THEN updateData.type ELSE oldTransaction.type
        isOldTransactionBancaire ==
            isTransactionBancaire(oldTransaction.description, oldTransaction.type)
        isNewTransactionBancaire == isTransactionBancaire(newDescription, nouveauType)
        transactionBancaire == IF isOldTransactionBancaire THEN tb ELSE 0
    IN IF (isOldTransactionBancaire \/ isNewTransactionBancaire) /\ compteCaisse = 0
       THEN [err |-> "Aucun compte de caisse trouve", db |-> d]
       ELSE IF (isOldTransactionBancaire \/ isNewTransactionBancaire)
               /\ transactionBancaire # 0
       THEN updateTransactionBancaireLiee(d, id, updateData, compteCaisse,
                                          transactionBancaire)
       ELSE IF isOldTransactionBancaire
       THEN [err |-> "Transaction bancaire non trouvee", db |-> d]
       ELSE updateTransactionSimple(d, id, updateData)

\* compteCaisse and tb are the rows the two findFirst calls return (0 = null)
updateTransactionWithBalance(d, id, updateData, compteCaisse, tb) ==
    IF id \notin DOMAIN d.transactions
    THEN [err |-> "Transaction non trouvee", db |-> d]
    ELSE
    LET oldTransaction == d.transactions[id]
        newDescription == IF updateData.description # Undefined
                          THEN updateData.description ELSE oldTransaction.description
        nouveauType == IF updateData.type # "" THEN updateData.type ELSE oldTransaction.type
        isOldTransactionBancaire ==
            isTransactionBancaire(oldTransaction.description, oldTransaction.type)
        isNewTransactionBancaire == isTransactionBancaire(newDescription, nouveauType)
        transactionBancaire == IF isOldTransactionBancaire THEN tb ELSE 0
    IN IF (isOldTransactionBancaire \/ isNewTransactionBancaire) /\ compteCaisse = 0
       THEN [err |-> "Aucun compte de caisse trouve", db |-> d]
       ELSE IF (isOldTransactionBancaire \/ isNewTransactionBancaire)
               /\ transactionBancaire # 0
       THEN updateTransactionBancaireLiee(d, id, updateData, compteCaisse,
                                          transactionBancaire)
       ELSE updateTransactionSimple(d, id, updateData)

\* variant: the row is removed, the balance is left as it was
deleteTransactionWithBalanceSansRestauration(d, id) ==
    IF id \notin DOMAIN d.transactions
    THEN [err |-> "Transaction non trouvee", db |-> d]
    ELSE [err |-> "", db |-> [d EXCEPT !.transactions = Remove(@, id)]]

deleteTransactionWithBalance(d, id) ==
    IF id \notin DOMAIN d.transactions
    THEN [err |-> "Transaction non trouvee", db |-> d]
    ELSE
    LET transaction == d.transactions[id]
        compte == d.comptes[transaction.compteId]
        montantRestaurer == IF transaction.type = "RECETTE"
                            THEN -Abs(transaction.montant) ELSE Abs(transaction.montant)
        nouveauSolde == compte.soldeActuel + montantRestaurer
        d1 == SetSolde(d, transaction.compteId, nouveauSolde)
    IN [err |-> "", db |-> [d1 EXCEPT !.transactions = Remove(@, id)]]

----------------------------------------------------------------------------
(* controllers/transactionController.js *)

\* the catch block of a handler followed by middleware/errorHandler.js
ErrorStatus(err) ==
    CASE err = "Transaction non trouvee" -> 404
      [] err = "P2025" -> 404
      [] err = "P2003" -> 400
      [] err = "P2002" -> 409
      [] OTHER -> 500

Reject(d, status) == [status |-> status, id |-> 0, db |-> d]

\* variant: the sub-category is not checked against the category
createTransactionSansAppartenance(d, userId, body) ==
    LET currentUser == d.users[userId]
        categorie == d.categories[body.categorieId]
        sousCategorie == d.sousCategories[body.sousCategorieId]
        created == createTransactionWithBalance(d,
                      [categorieId |-> body.categorieId,
                       sousCategorieId |-> body.sousCategorieId,
                       compteId |-> body.compteId,
                       dateTransaction |-> body.dateTransaction,
                       description |-> body.description,
                       montant |-> body.montant,
                       type |-> body.type])
    IN IF currentUser.role = "SECRETAIRE" /\ body.type # "DEPENSE"
       THEN Reject(d, 403)
       ELSE IF currentUser.role = "SECRETAIRE" /\ currentUser.compteSecretaireId # body.compteId
       THEN Reject(d, 403)
       ELSE IF \/ body.categorieId = 0 \/ body.sousCategorieId = 0 \/ body.compteId = 0 \/ body.dateTransaction = 0 \/ body.montant = 0 \/ body.type = ""
       THEN Reject(d, 400)
       ELSE IF body.montant <= 0
       THEN Reject(d, 400)
       ELSE IF body.categorieId \notin DOMAIN d.categories
       THEN Reject(d, 404)
       ELSE IF body.sousCategorieId \notin DOMAIN d.sousCategories
       THEN Reject(d, 404)
       ELSE IF body.compteId \notin DOMAIN d.comptes
       THEN Reject(d, 404)
       ELSE IF ~isFikambananaMasina(categorie) /\ categorie.type # body.type
       THEN Reject(d, 400)
       ELSE [status |-> 201, id |-> created.id, db |-> created.db]

createTransaction(d, userId, body) ==
    LET currentUser == d.users[userId]
        categorie == d.categories[body.categorieId]
        sousCategorie == d.sousCategories[body.sousCategorieId]
        created == createTransactionWithBalance(d,
                      [categorieId |-> body.categorieId,
                       sousCategorieId |-> body.sousCategorieId,
                       compteId |-> body.compteId,
                       dateTransaction |-> body.dateTransaction,
                       description |-> body.description,
                       montant |-> body.montant,
                       type |-> body.type])
    IN IF currentUser.role = "SECRETAIRE" /\ body.type # "DEPENSE"
       THEN Reject(d, 403)
       ELSE IF currentUser.role = "SECRETAIRE" /\ currentUser.compteSecretaireId # body.compteId
       THEN Reject(d, 403)
       ELSE IF \/ body.categorieId = 0 \/ body.sousCategorieId = 0 \/ body.compteId = 0 \/ body.dateTransaction = 0 \/ body.montant = 0 \/ body.type = ""
       THEN Reject(d, 400)
       ELSE IF body.montant <= 0
       THEN Reject(d, 400)
       ELSE IF body.categorieId \notin DOMAIN d.categories
       THEN Reject(d, 404)
       ELSE IF body.sousCategorieId \notin DOMAIN d.sousCategories
       THEN Reject(d, 404)
       ELSE IF body.compteId \notin DOMAIN d.comptes
       THEN Reject(d, 404)
       ELSE IF sousCategorie.categorieId # body.categorieId
       THEN Reject(d, 400)
       ELSE IF ~isFikambananaMasina(categorie) /\ categorie.type # body.type
       THEN Reject(d, 400)
       ELSE [status |-> 201, id |-> created.id, db |-> created.db]

updateTransaction(d, userId, id, body, compteCaisse, tb) ==
    IF id \notin DOMAIN d.transactions THEN Reject(d, 404)
    ELSE
    LET existingTransaction == d.transactions[id]
        currentUser == d.users[userId]
        secretaire == currentUser.role = "SECRETAIRE" /\ currentUser.compteSecretaireId # 0
        finalCategorieId == IF body.categorieId # 0
                            THEN body.categorieId ELSE existingTransaction.categorieId
        finalSousCategorieId == IF body.sousCategorieId # 0
                                THEN body.sousCategorieId
                                ELSE existingTransaction.sousCategorieId
        sousCategorie == d.sousCategories[finalSousCategorieId]
        finalType == IF body.type # "" THEN body.type ELSE existingTransaction.type
        categorie == d.categories[finalCategorieId]
        updateData ==
            [categorieId |-> body.categorieId,
             sousCategorieId |-> finalSousCategorieId,
             compteId |-> IF secretaire THEN currentUser.compteSecretaireId
                          ELSE body.compteId,
             dateTransaction |-> body.dateTransaction,
             description |-> body.description,
             montant |-> body.montant,
             type |-> body.type]
        done == updateTransactionWithBalance(d, id, updateData, compteCaisse, tb)
    IN IF secretaire /\ existingTransaction.compteId # currentUser.compteSecretaireId
       THEN Reject(d, 403)
       ELSE IF secretaire /\ body.compteId # 0 /\ body.compteId # currentUser.compteSecretaireId
       THEN Reject(d, 403)
       ELSE IF finalSousCategorieId = 0
       THEN Reject(d, 400)
       ELSE IF finalSousCategorieId \notin DOMAIN d.sousCategories
       THEN Reject(d, 404)
       ELSE IF sousCategorie.categorieId # finalCategorieId
       THEN Reject(d, 400)
       ELSE IF (body.categorieId # 0 \/ body.type # "") /\ finalCategorieId \notin DOMAIN d.categories
       THEN Reject(d, 404)
       ELSE IF (body.categorieId # 0 \/ body.type # "") /\ ~isFikambananaMasina(categorie) /\ categorie.type # finalType
       THEN Reject(d, 400)
       ELSE IF body.montant # 0 /\ body.montant <= 0
       THEN Reject(d, 400)
       ELSE IF done.err # ""
       THEN Reject(d, ErrorStatus(done.err))
       ELSE [status |-> 200, id |-> id, db |-> done.db]

deleteTransaction(d, userId, id) ==
    IF id \notin DOMAIN d.transactions THEN Reject(d, 404)
    ELSE
    LET existingTransaction == d.transactions[id]
        currentUser == d.users[userId]
        done == deleteTransactionWithBalance(d, id)
    IN IF currentUser.role = "SECRETAIRE" /\ currentUser.compteSecretaireId # 0 /\ existingTransaction.compteId # currentUser.compteSecretaireId
       THEN Reject(d, 403)
       ELSE IF done.err # ""
       THEN Reject(d, ErrorStatus(done.err))
       ELSE [status |-> 200, id |-> id, db |-> done.db]

----------------------------------------------------------------------------
(* controllers/transactionController.js: getRecapitulation *)

\* the same without the period in the where clause
findManyRecapitulationSansPeriode(d, userId, dateDebut, dateFin) ==
    LET currentUser == d.users[userId]
        compteIdsAdmin == {c \in DOMAIN d.comptes : d.comptes[c].type # "SECRETAIRE"}
    IN { t \in DOMAIN d.transactions :
           IF currentUser.role = "SECRETAIRE" /\ currentUser.compteSecretaireId # 0
           THEN d.transactions[t].compteId = currentUser.compteSecretaireId
           ELSE IF currentUser.role = "ADMIN"
           THEN d.transactions[t].compteId \in compteIdsAdmin
           ELSE TRUE }

\* the where clause: the period, and the comptes the role may see
findManyRecapitulation(d, userId, dateDebut, dateFin) ==
    LET currentUser == d.users[userId]
        compteIdsAdmin == {c \in DOMAIN d.comptes : d.comptes[c].type # "SECRETAIRE"}
    IN { t \in DOMAIN d.transactions :
           /\ d.transactions[t].dateTransaction >= dateDebut
           /\ d.transactions[t].dateTransaction <= dateFin
           /\ IF currentUser.role = "SECRETAIRE" /\ currentUser.compteSecretaireId # 0
              THEN d.transactions[t].compteId = currentUser.compteSecretaireId
              ELSE IF currentUser.role = "ADMIN"
              THEN d.transactions[t].compteId \in compteIdsAdmin
              ELSE TRUE }

\* transactions.forEach(...): one transaction after the other into `grouped`
RECURSIVE Grouper(_, _, _)
Grouper(d, grouped, transactions) ==
    IF transactions = {} THEN grouped
    ELSE
    LET t == CHOOSE x \in transactions : \A y \in transactions : x <= y
        transaction == d.transactions[t]
        categorieId == transaction.categorieId
        sousCategorieId == transaction.sousCategorieId
        montant == transaction.montant
        g1 == IF categorieId \notin DOMAIN grouped
              THEN Put(grouped, categorieId,
                       [id |-> categorieId,
                        type |-> d.categories[categorieId].type,
                        sousCategories |-> EmptyTable,
                        totalRecettes |-> 0,
                        totalDepenses |-> 0])
              ELSE grouped
        g2 == IF sousCategorieId \notin DOMAIN g1[categorieId].sousCategories
              THEN [g1 EXCEPT ![categorieId].sousCategories =
                       Put(@, sousCategorieId,
                           [id |-> sousCategorieId,
                            transactions |-> {},
                            totalRecettes |-> 0,
                            totalDepenses |-> 0])]
              ELSE g1
        g3 == [g2 EXCEPT ![categorieId].sousCategories[sousCategorieId].transactions =
                   @ \cup {t}]
        g4 == IF transaction.type = "RECETTE"
              THEN [g3 EXCEPT
                      ![categorieId].sousCategories[sousCategorieId].totalRecettes =
                          @ + montant,
                      ![categorieId].totalRecettes = @ + montant]
              ELSE [g3 EXCEPT
                      ![categorieId].sousCategories[sousCategorieId].totalDepenses =
                          @ + montant,
                      ![categorieId].totalDepenses = @ + montant]
    IN Grouper(d, g4, transactions \ {t})

\* Object.values(grouped).reduce((sum, cat) => sum + cat[total], 0)
RECURSIVE Reduce(_, _, _)
Reduce(grouped, total, restant) ==
    IF restant = {} THEN 0
    ELSE LET c == CHOOSE x \in restant : TRUE
         IN grouped[c][total] + Reduce(grouped, total, restant \ {c})

getRecapitulation(d, userId, dateDebut, dateFin) ==
    LET transactions == findManyRecapitulation(d, userId, dateDebut, dateFin)
        grouped == Grouper(d, EmptyTable, transactions)
        totalGeneralRecettes == Reduce(grouped, "totalRecettes", DOMAIN grouped)
        totalGeneralDepenses == Reduce(grouped, "totalDepenses", DOMAIN grouped)
    IN IF dateDebut = 0 \/ dateFin = 0
       THEN [status |-> 400, id |-> 0, db |-> d, data |-> Null]
       ELSE [status |-> 200, id |-> 0, db |-> d,
             data |-> [categories |->
                          [c \in DOMAIN grouped |->
                              [id |-> grouped[c].id,
                               type |-> grouped[c].type,
                               sousCategories |-> grouped[c].sousCategories,
                               totalRecettes |-> grouped[c].totalRecettes,
                               totalDepenses |-> grouped[c].totalDepenses,
                               soldeNet |-> grouped[c].totalRecettes
                                            - grouped[c].totalDepenses]],
                       totalGeneralRecettes |-> totalGeneralRecettes,
                       totalGeneralDepenses |-> totalGeneralDepenses,
                       soldeNetGeneral |-> totalGeneralRecettes - totalGeneralDepenses]]

----------------------------------------------------------------------------
(* controllers/compteController.js: deleteCompte *)

\* a compte with transactions is kept (400); one a banking operation is
\* attached to is kept by the foreign key (P2003); the user whose secretary
\* compte goes keeps the role and loses the link (ON DELETE SET NULL)
deleteCompte(d, id) ==
    IF \E t \in DOMAIN d.transactions : d.transactions[t].compteId = id
    THEN Reject(d, 400)
    ELSE IF id \notin DOMAIN d.comptes
    THEN Reject(d, ErrorStatus("P2025"))
    ELSE IF \E b \in DOMAIN d.transactionsBancaires :
               d.transactionsBancaires[b].compteId = id
    THEN Reject(d, ErrorStatus("P2003"))
    ELSE [status |-> 200, id |-> id,
          db |-> [d EXCEPT
                    !.comptes = Remove(@, id),
                    !.users = [u \in DOMAIN @ |->
                                 IF @[u].compteSecretaireId = id
                                 THEN [@[u] EXCEPT !.compteSecretaireId = 0]
                                 ELSE @[u]]]]

----------------------------------------------------------------------------
(* controllers/compteSecretaireController.js *)

\* tx.categorie.findFirst({ where: { type } }): any of them, 0 = null
findFirstCategorie(d, type) ==
    LET found == {c \in DOMAIN d.categories : d.categories[c].type = type}
    IN IF found = {} THEN {0} ELSE found

\* tx.sousCategorie.findFirst({ where: { categorieId } }): any of them, 0 = null
findFirstSousCategorie(d, categorieId) ==
    LET found == {sc \in DOMAIN d.sousCategories :
                    d.sousCategories[sc].categorieId = categorieId}
    IN IF found = {} THEN {0} ELSE found

\* the categorie found, or the default one created, with its sous-categorie
\* (lines 186-253); found = <<categorie, sousCategorie>>, 0 = none found
TrouverOuCreerCategorie(d, type, found) ==
    LET nouvelleCategorie == Len(d.categories) + 1
        d1 == IF found[1] = 0
              THEN [d EXCEPT !.categories =
                        Append(@, [nom |-> <<"Alimentation", "compte", "secretaire">>,
                                   type |-> type])]
              ELSE d
        categorieId == IF found[1] = 0 THEN nouvelleCategorie ELSE found[1]
        creerSous == found[1] = 0 \/ found[2] = 0
        d2 == IF creerSous
              THEN [d1 EXCEPT !.sousCategories =
                        Append(@, [categorieId |-> categorieId])]
              ELSE d1
    IN [db |-> d2, categorieId |-> categorieId,
        sousCategorieId |-> IF creerSous THEN Len(d2.sousCategories) ELSE found[2]]

\* description || `Alimentation ...`
DescriptionAlimentation(description) ==
    IF description # Null THEN description ELSE <<"Alimentation">>

\* lu is the database as the reads made before the prisma.$transaction saw
\* it, d the database the prisma.$transaction writes to; depense and recette
\* are the <<categorie, sousCategorie>> the findFirst calls return
alimenterCompteSecretaire(d, lu, userId, id, body, depense, recette) ==
    LET currentUser == lu.users[userId]
        montantNum == body.montant
        compteSourceId == body.compteSourceId
        nouveauSoldeSource == lu.comptes[compteSourceId].soldeActuel - montantNum
        nouveauSoldeSecretaire == lu.comptes[id].soldeActuel + montantNum
        s1 == SetSolde(d, compteSourceId, nouveauSoldeSource)
        s2 == SetSolde(s1, id, nouveauSoldeSecretaire)
        cd == TrouverOuCreerCategorie(s2, "DEPENSE", depense)
        cr == TrouverOuCreerCategorie(cd.db, "RECETTE", recette)
        t1 == [categorieId |-> cd.categorieId, sousCategorieId |-> cd.sousCategorieId,
               compteId |-> compteSourceId, dateTransaction |-> 1,
               description |-> DescriptionAlimentation(body.description),
               montant |-> montantNum, type |-> "DEPENSE"]
        t2 == [categorieId |-> cr.categorieId, sousCategorieId |-> cr.sousCategorieId,
               compteId |-> id, dateTransaction |-> 1,
               description |-> DescriptionAlimentation(body.description),
               montant |-> montantNum, type |-> "RECETTE"]
    IN IF currentUser.role # "ADMIN"
       THEN Reject(d, 403)
       ELSE IF body.montant = 0 \/ body.montant <= 0
       THEN Reject(d, 400)
       ELSE IF compteSourceId = 0
       THEN Reject(d, 400)
       ELSE IF id \notin DOMAIN lu.comptes
       THEN Reject(d, 404)
       ELSE IF lu.comptes[id].type # "SECRETAIRE"
       THEN Reject(d, 404)
       ELSE IF compteSourceId \notin DOMAIN lu.comptes
       THEN Reject(d, 404)
       ELSE IF lu.comptes[compteSourceId].soldeActuel < body.montant
       THEN Reject(d, 400)
       ELSE [status |-> 200, id |-> id,
             db |-> [cr.db EXCEPT
                       !.transactions = Put(Put(@, cr.db.txSeq + 1, t1),
                                            cr.db.txSeq + 2, t2),
                       !.txSeq = @ + 2]]

----------------------------------------------------------------------------
(* The writes of each prisma.$transaction, one by one and in the order of   *)
(* the code: element k is the database as the unit of work sees it after    *)
(* its k-th write.                                                          *)

\* transactionService.js lines 16, 44
EcrituresCreateTransaction(d, transactionData) ==
    LET id == d.txSeq + 1
        d1 == [d EXCEPT !.transactions = Put(@, id, transactionData), !.txSeq = id]
        montantAjouter == IF transactionData.type = "RECETTE"
                          THEN Abs(transactionData.montant)
                          ELSE -Abs(transactionData.montant)
    IN << d1,
          SetSolde(d1, transactionData.compteId,
                   d1.comptes[transactionData.compteId].soldeActuel + montantAjouter) >>

\* transactionService.js lines 255, 272, 283 (or 293)
EcrituresUpdateSimple(d, id, updateData) ==
    LET oldTransaction == d.transactions[id]
        updatedTransaction == ApplyUpdateData(oldTransaction, updateData)
        montantAnnuler == IF oldTransaction.type = "RECETTE"
                          THEN -Abs(oldTransaction.montant)
                          ELSE Abs(oldTransaction.montant)
        montantAjouter == IF updatedTransaction.type = "RECETTE"
                          THEN Abs(updatedTransaction.montant)
                          ELSE -Abs(updatedTransaction.montant)
        soldeApresAnnulation ==
            d.comptes[oldTransaction.compteId].soldeActuel + montantAnnuler
        d1 == [d EXCEPT !.transactions[id] = updatedTransaction]
        d2 == SetSolde(d1, oldTransaction.compteId, soldeApresAnnulation)
    IN IF updatedTransaction.compteId # oldTransaction.compteId
       THEN << d1, d2,
               SetSolde(d2, updatedTransaction.compteId,
                        d2.comptes[updatedTransaction.compteId].soldeActuel
                        + montantAjouter) >>
       ELSE << d1,
               SetSolde(d1, updatedTransaction.compteId,
                        soldeApresAnnulation + montantAjouter) >>

\* the same writes, the new pair-movement applied before the old one is reversed
EcrituresUpdateLieeApplicationDAbord(d, id, updateData, compteCaisse, tb) ==
    LET oldTransaction == d.transactions[id]
        oldChequeNumber == extractChequeNumber(oldTransaction.description)
        newDescription == IF updateData.description # Undefined
                          THEN updateData.description ELSE oldTransaction.description
        newChequeNumber == extractChequeNumber(newDescription)
        nouveauMontant == IF updateData.montant # 0
                          THEN updateData.montant ELSE oldTransaction.montant
        nouveauType == IF updateData.type # "" THEN updateData.type ELSE oldTransaction.type
        oldMontant == oldTransaction.montant
        transactionBancaire == d.transactionsBancaires[tb]
        compteBanque == transactionBancaire.compteId
        dateOperation == IF updateData.dateTransaction # 0
                         THEN updateData.dateTransaction
                         ELSE transactionBancaire.dateOperation
        a1 == Increment(d, compteBanque, -nouveauMontant)
        a2 == Increment(a1, compteCaisse, nouveauMontant)
        supprimee == [a2 EXCEPT !.transactionsBancaires = Remove(@, tb)]
        recreee == [supprimee EXCEPT
                      !.transactionsBancaires =
                          Put(@, supprimee.tbSeq + 1,
                              [compteId |-> compteBanque,
                               dateOperation |-> dateOperation,
                               description |-> newDescription,
                               montant |-> nouveauMontant,
                               type |-> "RETRAIT",
                               numeroCheque |-> newChequeNumber]),
                      !.tbSeq = @ + 1]
        modifiee == [a2 EXCEPT
                       !.transactionsBancaires[tb] =
                           [@ EXCEPT !.montant = nouveauMontant,
                                     !.description = newDescription,
                                     !.dateOperation = dateOperation,
                                     !.numeroCheque = IF newChequeNumber # Null
                                                      THEN newChequeNumber
                                                      ELSE oldChequeNumber]]
        recree == newChequeNumber # Null /\ newChequeNumber # oldChequeNumber
        a4 == IF recree THEN recreee ELSE modifiee
        a5 == Increment(a4, compteBanque, oldMontant)
        a6 == Increment(a5, compteCaisse, -oldMontant)
        a7 == [a6 EXCEPT !.transactions[id] = ApplyUpdateData(oldTransaction, updateData)]
        montantAnnuler == IF oldTransaction.type = "RECETTE"
                          THEN -Abs(oldMontant) ELSE Abs(oldMontant)
        montantAjouter == IF nouveauType = "RECETTE"
                          THEN Abs(nouveauMontant) ELSE -Abs(nouveauMontant)
        a8 == SetSolde(a7, compteCaisse,
                       a7.comptes[compteCaisse].soldeActuel
                       + montantAnnuler + montantAjouter)
    IN IF recree
       THEN <<a1, a2, supprimee, recreee, a5, a6, a7, a8>>
       ELSE <<a1, a2, modifiee, a5, a6, a7, a8>>

\* transactionService.js lines 127, 131, 139 and 144 (or 158), 171, 175, 206, 231
EcrituresUpdateLiee(d, id, updateData, compteCaisse, tb) ==
    LET oldTransaction == d.transactions[id]
        oldChequeNumber == extractChequeNumber(oldTransaction.description)
        newDescription == IF updateData.description # Undefined
                          THEN updateData.description ELSE oldTransaction.description
        newChequeNumber == extractChequeNumber(newDescription)
        nouveauMontant == IF updateData.montant # 0
                          THEN updateData.montant ELSE oldTransaction.montant
        nouveauType == IF updateData.type # "" THEN updateData.type ELSE oldTransaction.type
        oldMontant == oldTransaction.montant
        transactionBancaire == d.transactionsBancaires[tb]
        compteBanque == transactionBancaire.compteId
        dateOperation == IF updateData.dateTransaction # 0
                         THEN updateData.dateTransaction
                         ELSE transactionBancaire.dateOperation
        a1 == Increment(d, compteBanque, oldMontant)
        a2 == Increment(a1, compteCaisse, -oldMontant)
        supprimee == [a2 EXCEPT !.transactionsBancaires = Remove(@, tb)]
        recreee == [supprimee EXCEPT
                      !.transactionsBancaires =
                          Put(@, supprimee.tbSeq + 1,
                              [compteId |-> compteBanque,
                               dateOperation |-> dateOperation,
                               description |-> newDescription,
                               montant |-> nouveauMontant,
                               type |-> "RETRAIT",
                               numeroCheque |-> newChequeNumber]),
                      !.tbSeq = @ + 1]
        modifiee == [a2 EXCEPT
                       !.transactionsBancaires[tb] =
                           [@ EXCEPT !.montant = nouveauMontant,
                                     !.description = newDescription,
                                     !.dateOperation = dateOperation,
                                     !.numeroCheque = IF newChequeNumber # Null
                                                      THEN newChequeNumber
                                                      ELSE oldChequeNumber]]
        recree == newChequeNumber # Null /\ newChequeNumber # oldChequeNumber
        a4 == IF recree THEN recreee ELSE modifiee
        a5 == Increment(a4, compteBanque, -nouveauMontant)
        a6 == Increment(a5, compteCaisse, nouveauMontant)
        a7 == [a6 EXCEPT !.transactions[id] = ApplyUpdateData(oldTransaction, updateData)]
        montantAnnuler == IF oldTransaction.type = "RECETTE"
                          THEN -Abs(oldMontant) ELSE Abs(oldMontant)
        montantAjouter == IF nouveauType = "RECETTE"
                          THEN Abs(nouveauMontant) ELSE -Abs(nouveauMontant)
        a8 == SetSolde(a7, compteCaisse,
                       a7.comptes[compteCaisse].soldeActuel
                       + montantAnnuler + montantAjouter)
    IN IF recree
       THEN <<a1, a2, supprimee, recreee, a5, a6, a7, a8>>
       ELSE <<a1, a2, modifiee, a5, a6, a7, a8>>

\* transactionService.js lines 330, 336
EcrituresDeleteTransaction(d, id) ==
    LET transaction == d.transactions[id]
        montantRestaurer == IF transaction.type = "RECETTE"
                            THEN -Abs(transaction.montant) ELSE Abs(transaction.montant)
        d1 == SetSolde(d, transaction.compteId,
                       d.comptes[transaction.compteId].soldeActuel + montantRestaurer)
    IN << d1, [d1 EXCEPT !.transactions = Remove(@, id)] >>

\* transactionBancaireController.js lines 130, 136 (or 149, 155), 162
EcrituresCreateBancaire(d, body, compteCaisse) ==
    LET compteBanque == body.compteId
        id == d.tbSeq + 1
        b1 == IF body.type = "DEPOT"
              THEN Increment(d, compteCaisse, -body.montant)
              ELSE Increment(d, compteBanque, -body.montant)
        b2 == IF body.type = "DEPOT"
              THEN Increment(b1, compteBanque, body.montant)
              ELSE Increment(b1, compteCaisse, body.montant)
    IN << b1, b2,
          [b2 EXCEPT !.transactionsBancaires =
                         Put(@, id, [compteId |-> body.compteId,
                                     dateOperation |-> body.dateOperation,
                                     description |-> body.description,
                                     montant |-> body.montant,
                                     type |-> body.type,
                                     numeroCheque |-> body.numeroCheque]),
                     !.tbSeq = id] >>

\* transactionBancaireController.js lines 248, 252 (or 258, 262),
\* 281, 285 (or 291, 295), 309
EcrituresUpdateBancaire(d, id, body, compteCaisse) ==
    LET existingTransaction == d.transactionsBancaires[id]
        compteBanque == existingTransaction.compteId
        newType == IF body.type # "" THEN body.type ELSE existingTransaction.type
        oldAmount == existingTransaction.montant
        newAmount == IF body.montant # 0 THEN body.montant ELSE oldAmount
        versCaisse == IF existingTransaction.type = "DEPOT" THEN oldAmount ELSE -oldAmount
        c1 == Increment(d, compteCaisse, versCaisse)
        c2 == Increment(c1, compteBanque, -versCaisse)
        c3 == IF newType = "DEPOT"
              THEN Increment(c2, compteCaisse, -newAmount)
              ELSE Increment(c2, compteBanque, -newAmount)
        c4 == IF newType = "DEPOT"
              THEN Increment(c3, compteBanque, newAmount)
              ELSE Increment(c3, compteCaisse, newAmount)
    IN << c1, c2, c3, c4,
          [c4 EXCEPT !.transactionsBancaires[id] =
              [compteId |-> @.compteId,
               dateOperation |-> IF body.dateOperation # 0
                                 THEN body.dateOperation ELSE @.dateOperation,
               description |-> IF body.description # Undefined
                               THEN body.description ELSE @.description,
               montant |-> IF body.montant # 0 THEN newAmount ELSE @.montant,
               type |-> IF body.type # "" THEN body.type ELSE @.type,
               numeroCheque |-> IF body.numeroCheque # Undefined
                                THEN body.numeroCheque ELSE @.numeroCheque]] >>

\* transactionBancaireController.js lines 361, 365 (or 371, 375), 382
EcrituresDeleteBancaire(d, id, compteCaisse) ==
    LET transaction == d.transactionsBancaires[id]
        versCaisse == IF transaction.type = "DEPOT"
                      THEN transaction.montant ELSE -transaction.montant
        e1 == Increment(d, compteCaisse, versCaisse)
        e2 == Increment(e1, transaction.compteId, -versCaisse)
    IN << e1, e2, [e2 EXCEPT !.transactionsBancaires = Remove(@, id)] >>

----------------------------------------------------------------------------
(* controllers/categorieController.js *)

\* the request sends nom and type only (codeBudgetaire and statut absent);
\* a falsy field is not written
updateCategory(d, id, body) ==
    IF id \notin DOMAIN d.categories
    THEN Reject(d, 404)
    ELSE [status |-> 200, id |-> id,
          db |-> [d EXCEPT !.categories[id] =
                     [nom |-> IF body.nom # Null THEN body.nom ELSE @.nom,
                      type |-> IF body.type # "" THEN body.type ELSE @.type]]]

----------------------------------------------------------------------------
(* controllers/compteController.js *)

\* the request sends type only (nom absent); prisma.compte.update on an id
\* that has no row throws P2025
updateCompte(d, id, body) ==
    IF id \notin DOMAIN d.comptes
    THEN Reject(d, ErrorStatus("P2025"))
    ELSE [status |-> 200, id |-> id,
          db |-> [d EXCEPT !.comptes[id].type =
                     IF body.type # "" THEN body.type ELSE @]]

----------------------------------------------------------------------------
(* controllers/transactionBancaireController.js                            *)
(* Every handler reads (existing row, caisse, banque, duplicate cheque)    *)
(* with the global client before it opens prisma.$transaction: `lu` is the *)
(* database as those reads saw it, `d` the database the transaction body   *)
(* runs against.  A handler that runs alone has lu = d.                    *)

\* the checks before prisma.$transaction (lines 73-117); 0 = all passed
createTransactionBancaireCheck(lu, body, compteCaisse) ==
    IF body.compteId = 0 \/ body.dateOperation = 0 \/ body.montant = 0 \/ body.type = ""
    THEN 400
    ELSE IF body.montant <= 0
    THEN 400
    ELSE IF body.compteId \notin DOMAIN lu.comptes
    THEN 404
    ELSE IF lu.comptes[body.compteId].type # "BANQUE"
    THEN 400
    ELSE IF body.type = "RETRAIT" /\ body.numeroCheque = Null
    THEN 400
    ELSE IF body.type = "RETRAIT" /\ findFirstCheque(lu, body.numeroCheque) # {0}
    THEN 400
    ELSE IF compteCaisse = 0
    THEN 500
    ELSE 0

\* variant: only the cash leg of the movement is written
createTransactionBancaireTxCaisseSeule(d, lu, body, compteCaisse) ==
    LET id == d.tbSeq + 1
        moved == IF body.type = "DEPOT"
                 THEN Increment(d, compteCaisse, -body.montant)
                 ELSE Increment(d, compteCaisse, body.montant)
        newTransaction == [compteId |-> body.compteId,
                           dateOperation |-> body.dateOperation,
                           description |-> body.description,
                           montant |-> body.montant,
                           type |-> body.type,
                           numeroCheque |-> body.numeroCheque]
    IN IF body.type = "DEPOT" /\ lu.comptes[compteCaisse].soldeActuel < body.montant
       THEN [err |-> "Solde de caisse insuffisant", id |-> 0, db |-> d]
       ELSE IF body.type = "RETRAIT"
               /\ lu.comptes[body.compteId].soldeActuel < body.montant
       THEN [err |-> "Solde bancaire insuffisant", id |-> 0, db |-> d]
       ELSE [err |-> "", id |-> id,
             db |-> [moved EXCEPT !.transactionsBancaires = Put(@, id, newTransaction),
                                  !.tbSeq = id]]

\* the body of prisma.$transaction (lines 120-179)
createTransactionBancaireTx(d, lu, body, compteCaisse) ==
    LET compteBanque == body.compteId
        montantFloat == body.montant
        id == d.tbSeq + 1
        moved == IF body.type = "DEPOT"
                 THEN Increment(Increment(d, compteCaisse, -montantFloat),
                                compteBanque, montantFloat)
                 ELSE Increment(Increment(d, compteBanque, -montantFloat),
                                compteCaisse, montantFloat)
        newTransaction == [compteId |-> body.compteId,
                           dateOperation |-> body.dateOperation,
                           description |-> body.description,
                           montant |-> montantFloat,
                           type |-> body.type,
                           numeroCheque |-> body.numeroCheque]
    IN IF body.type = "DEPOT" /\ lu.comptes[compteCaisse].soldeActuel < montantFloat
       THEN [err |-> "Solde de caisse insuffisant", id |-> 0, db |-> d]
       ELSE IF body.type = "RETRAIT" /\ lu.comptes[compteBanque].soldeActuel < montantFloat
       THEN [err |-> "Solde bancaire insuffisant", id |-> 0, db |-> d]
       ELSE [err |-> "", id |-> id,
             db |-> [moved EXCEPT !.transactionsBancaires = Put(@, id, newTransaction),
                                  !.tbSeq = id]]

\* error.message.includes('Solde') -> 400, anything else goes to errorHandler
BancaireErrorStatus(err) ==
    IF err \in {"Solde de caisse insuffisant", "Solde bancaire insuffisant"}
    THEN 400 ELSE ErrorStatus(err)

\* variant: the balance is tested after the first account was written, and
\* the write is not taken back
createTransactionBancaireSansRetour(d, lu, body, compteCaisse) ==
    LET refused == createTransactionBancaireCheck(lu, body, compteCaisse)
        done == createTransactionBancaireTx(d, lu, body, compteCaisse)
    IN IF refused # 0
       THEN Reject(d, refused)
       ELSE IF done.err # ""
       THEN Reject(Increment(d, body.compteId,
                             IF body.type = "DEPOT" THEN body.montant ELSE -body.montant),
                   BancaireErrorStatus(done.err))
       ELSE [status |-> 201, id |-> done.id, db |-> done.db]

createTransactionBancaire(d, lu, body, compteCaisse) ==
    LET refused == createTransactionBancaireCheck(lu, body, compteCaisse)
        done == createTransactionBancaireTx(d, lu, body, compteCaisse)
    IN IF refused # 0
       THEN Reject(d, refused)
       ELSE IF done.err # ""
       THEN Reject(d, BancaireErrorStatus(done.err))
       ELSE [status |-> 201, id |-> done.id, db |-> done.db]

\* variant: a withdrawal is not asked for its cheque number
updateTransactionBancaireCheckSansNumero(lu, id, body, compteCaisse) ==
    IF id \notin DOMAIN lu.transactionsBancaires
    THEN 404
    ELSE IF compteCaisse = 0
    THEN 500
    ELSE
    LET existingTransaction == lu.transactionsBancaires[id]
        newType == IF body.type # "" THEN body.type ELSE existingTransaction.type
        newNumeroCheque == IF body.numeroCheque # Undefined
                           THEN body.numeroCheque ELSE existingTransaction.numeroCheque
    IN IF newType = "RETRAIT" /\ newNumeroCheque # existingTransaction.numeroCheque
          /\ findFirstCheque(lu, newNumeroCheque) # {0}
       THEN 400
       ELSE 0

\* the checks before prisma.$transaction (lines 201-239); 0 = all passed
updateTransactionBancaireCheck(lu, id, body, compteCaisse) ==
    IF id \notin DOMAIN lu.transactionsBancaires
    THEN 404
    ELSE IF compteCaisse = 0
    THEN 500
    ELSE
    LET existingTransaction == lu.transactionsBancaires[id]
        newType == IF body.type # "" THEN body.type ELSE existingTransaction.type
        newNumeroCheque == IF body.numeroCheque # Undefined
                           THEN body.numeroCheque ELSE existingTransaction.numeroCheque
    IN IF newType = "RETRAIT" /\ newNumeroCheque = Null
       THEN 400
       ELSE IF newType = "RETRAIT" /\ newNumeroCheque # existingTransaction.numeroCheque
               /\ findFirstCheque(lu, newNumeroCheque) # {0}
       THEN 400
       ELSE 0

\* variant: the new movement is applied, the old one is not reversed
updateTransactionBancaireTxSansInverse(d, lu, id, body, compteCaisse) ==
    LET existingTransaction == lu.transactionsBancaires[id]
        compteBanque == existingTransaction.compteId
        newType == IF body.type # "" THEN body.type ELSE existingTransaction.type
        newAmount == IF body.montant # 0 THEN body.montant ELSE existingTransaction.montant
        d2 == IF newType = "DEPOT"
              THEN Increment(Increment(d, compteCaisse, -newAmount), compteBanque, newAmount)
              ELSE Increment(Increment(d, compteBanque, -newAmount), compteCaisse, newAmount)
    IN IF id \notin DOMAIN d.transactionsBancaires
       THEN [err |-> "P2025", db |-> d]
       ELSE [err |-> "",
             db |-> [d2 EXCEPT !.transactionsBancaires[id] =
                        [@ EXCEPT !.montant = newAmount, !.type = newType,
                                  !.numeroCheque = IF body.numeroCheque # Undefined
                                                   THEN body.numeroCheque ELSE @]]]

\* the body of prisma.$transaction (lines 242-317)
updateTransactionBancaireTx(d, lu, id, body, compteCaisse) ==
    LET existingTransaction == lu.transactionsBancaires[id]
        compteBanque == existingTransaction.compteId
        newType == IF body.type # "" THEN body.type ELSE existingTransaction.type
        oldAmount == existingTransaction.montant
        d1 == IF existingTransaction.type = "DEPOT"
              THEN Increment(Increment(d, compteCaisse, oldAmount), compteBanque, -oldAmount)
              ELSE Increment(Increment(d, compteCaisse, -oldAmount), compteBanque, oldAmount)
        newAmount == IF body.montant # 0 THEN body.montant ELSE oldAmount
        d2 == IF newType = "DEPOT"
              THEN Increment(Increment(d1, compteCaisse, -newAmount), compteBanque, newAmount)
              ELSE Increment(Increment(d1, compteBanque, -newAmount), compteCaisse, newAmount)
    IN IF id \notin DOMAIN d.transactionsBancaires
       THEN [err |-> "P2025", db |-> d]
       ELSE [err |-> "",
             db |-> [d2 EXCEPT !.transactionsBancaires[id] =
                        [compteId |-> @.compteId,
                         dateOperation |-> IF body.dateOperation # 0
                                           THEN body.dateOperation ELSE @.dateOperation,
                         description |-> IF body.description # Undefined
                                         THEN body.description ELSE @.description,
                         montant |-> IF body.montant # 0 THEN newAmount ELSE @.montant,
                         type |-> IF body.type # "" THEN body.type ELSE @.type,
                         numeroCheque |-> IF body.numeroCheque # Undefined
                                          THEN body.numeroCheque ELSE @.numeroCheque]]]

updateTransactionBancaire(d, lu, id, body, compteCaisse) ==
    LET refused == updateTransactionBancaireCheck(lu, id, body, compteCaisse)
        done == updateTransactionBancaireTx(d, lu, id, body, compteCaisse)
    IN IF refused # 0
       THEN Reject(d, refused)
       ELSE IF done.err # ""
       THEN Reject(d, ErrorStatus(done.err))
       ELSE [status |-> 200, id |-> id, db |-> done.db]

\* variant: the row is removed, the movement is not reversed
deleteTransactionBancaireTxSansInverse(d, lu, id, compteCaisse) ==
    IF id \notin DOMAIN d.transactionsBancaires
    THEN [err |-> "P2025", db |-> d]
    ELSE [err |-> "", db |-> [d EXCEPT !.transactionsBancaires = Remove(@, id)]]

\* the body of prisma.$transaction (lines 357-385)
deleteTransactionBancaireTx(d, lu, id, compteCaisse) ==
    LET transaction == lu.transactionsBancaires[id]
        compteBanque == transaction.compteId
        montant == transaction.montant
        d1 == IF transaction.type = "DEPOT"
              THEN Increment(Increment(d, compteCaisse, montant), compteBanque, -montant)
              ELSE Increment(Increment(d, compteCaisse, -montant), compteBanque, montant)
    IN IF id \notin DOMAIN d.transactionsBancaires
       THEN [err |-> "P2025", db |-> d]
       ELSE [err |-> "", db |-> [d1 EXCEPT !.transactionsBancaires = Remove(@, id)]]

\* variant: without a cash account the bank leg alone is reversed
deleteTransactionBancaireSansCaisse(d, lu, id, compteCaisse) ==
    LET done == deleteTransactionBancaireTx(d, lu, id, compteCaisse)
        transaction == lu.transactionsBancaires[id]
        versBanque == IF transaction.type = "DEPOT"
                      THEN -transaction.montant ELSE transaction.montant
    IN IF id \notin DOMAIN lu.transactionsBancaires
       THEN Reject(d, 404)
       ELSE IF compteCaisse = 0
       THEN [status |-> 200, id |-> id,
             db |-> [Increment(d, transaction.compteId, versBanque)
                        EXCEPT !.transactionsBancaires = Remove(@, id)]]
       ELSE IF done.err # ""
       THEN Reject(d, ErrorStatus(done.err))
       ELSE [status |-> 200, id |-> id, db |-> done.db]

deleteTransactionBancaire(d, lu, id, compteCaisse) ==
    LET done == deleteTransactionBancaireTx(d, lu, id, compteCaisse)
    IN IF id \notin DOMAIN lu.transactionsBancaires
       THEN Reject(d, 404)
       ELSE IF compteCaisse = 0
       THEN Reject(d, 500)
       ELSE IF done.err # ""
       THEN Reject(d, ErrorStatus(done.err))
       ELSE [status |-> 200, id |-> id, db |-> done.db]

----------------------------------------------------------------------------
(* Requests *)

Montants == 1..MaxMontant
MontantInputs == {-1, 0} \cup Montants

\* (categorieId, sousCategorieId) of a create request
ClassementInputs == {<<1, 1>>, <<2, 2>>, <<1, 2>>}

TransactionBodies ==
    { [categorieId |-> cs[1], sousCategorieId |-> cs[2], compteId |-> c,
       dateTransaction |-> 1, description |-> de, montant |-> m, type |-> t] :
        cs \in ClassementInputs, c \in CompteIds \cup {AbsentCompteId},
        de \in Descriptions, m \in MontantInputs, t \in {"RECETTE", "DEPENSE"} }

\* (categorieId, sousCategorieId) of an update request; <<0, 0>> = neither sent
ClassementPatches == {<<0, 0>>, <<1, 1>>, <<2, 2>>, <<2, 0>>}

FieldsSent(body) ==
    (IF body.categorieId # 0 \/ body.sousCategorieId # 0 THEN 1 ELSE 0)
    + (IF body.compteId # 0 THEN 1 ELSE 0)
    + (IF body.description # Undefined THEN 1 ELSE 0)
    + (IF body.montant # 0 THEN 1 ELSE 0)
    + (IF body.type # "" THEN 1 ELSE 0)

TransactionPatches ==
    { body \in
        { [categorieId |-> cs[1], sousCategorieId |-> cs[2], compteId |-> c,
           dateTransaction |-> 0, description |-> de, montant |-> m, type |-> t] :
            cs \in ClassementPatches, c \in {0, AbsentCompteId} \cup CompteIds,
            de \in {Undefined} \cup Descriptions, m \in MontantInputs,
            t \in {"", "RECETTE", "DEPENSE"} } :
        FieldsSent(body) <= MaxPatchFields }

\* who sends what: the administrator anything, the secretary a plain request
Acteurs(body) ==
    IF body.description \in {Null, Undefined} /\ body.montant \in {0, 1}
    THEN {AdminUserId, SecretaireUserId}
    ELSE {AdminUserId}

BancaireBodies ==
    { [compteId |-> c, dateOperation |-> 1, description |-> Null, montant |-> m,
       type |-> t, numeroCheque |-> n] :
        c \in {CaisseId, BanqueId, AbsentCompteId}, m \in MontantInputs,
        t \in {"RETRAIT", "DEPOT"}, n \in {Null, Cheque1, Cheque2} }

BancairePatches ==
    { [dateOperation |-> 0, description |-> Undefined, montant |-> m,
       type |-> t, numeroCheque |-> n] :
        m \in MontantInputs, t \in {"", "RETRAIT", "DEPOT"},
        n \in {Undefined, Null, Cheque1, Cheque2} }

CategoriePatches ==
    { [nom |-> n, type |-> t] :
        n \in {Null, <<"Fandaniana">>}, t \in {"", "RECETTE", "DEPENSE"} }

ComptePatches == { [type |-> t] : t \in {"", "CAISSE", "BANQUE"} }

AlimenterBodies ==
    { [montant |-> m, compteSourceId |-> c, description |-> Null] :
        m \in MontantInputs, c \in {0, AbsentCompteId} \cup CompteIds }

\* dated requests, filed under one of two sous-categories of the mixed categorie
RecapBodies ==
    { [categorieId |-> cs[1], sousCategorieId |-> cs[2], compteId |-> c,
       dateTransaction |-> j, description |-> Null, montant |-> m, type |-> t] :
        cs \in {<<1, 1>>, <<2, 2>>, <<2, 3>>}, c \in {CaisseId, SecretaireId},
        j \in 1..MaxDate, m \in Montants, t \in {"RECETTE", "DEPENSE"} }

----------------------------------------------------------------------------
(* State machine.  A request that is refused writes nothing: it leaves the *)
(* state as it is.  `last` names the last request that was served.         *)

RtNone == [phase |-> "none", table |-> "", id |-> 0, soldes |-> <<>>]

RtCreated(table, r) ==
    [phase |-> "created", table |-> table, id |-> r.id, soldes |-> Soldes(db)]

RtDeleted(table, r) ==
    IF rt.phase = "created" /\ rt.table = table /\ rt.id = r.id
    THEN [rt EXCEPT !.phase = "deleted"]
    ELSE RtNone

\* no prisma.$transaction was opened yet
UniteAucune ==
    [phase |-> "aucune", op |-> "", avant |-> <<>>, attendu |-> <<>>,
     etapes |-> <<>>, k |-> 0, n |-> 0]

\* what a unit of work has written and not yet committed: balances, rows of
\* the transaction table, and the rows it has deleted
EcritsAucuns == [soldes |-> EmptyTable, lignes |-> EmptyTable, supprimees |-> {}]

LuRien == [transaction |-> Null, solde |-> 0, solde2 |-> 0, db |-> Null]

RequeteAucune ==
    [phase |-> "aucune", op |-> "", arg |-> Null, pc |-> 0, lu |-> LuRien,
     ecrits |-> EcritsAucuns, origine |-> Null, avant |-> Null, status |-> 0]

RequetesAucunes == [p \in 1..MaxRequetes |-> RequeteAucune]

SoldesInitiaux == {MaxMontant}

InitialDb(caisse, banque) ==
    [comptes |->
        [c \in CompteIds |->
            [type |-> CASE c = CaisseId -> "CAISSE"
                        [] c = BanqueId -> "BANQUE"
                        [] OTHER -> "SECRETAIRE",
             soldeActuel |-> CASE c = CaisseId -> caisse
                               [] c = BanqueId -> banque
                               [] OTHER -> 0]],
     transactions |-> EmptyTable,
     transactionsBancaires |-> EmptyTable,
     txSeq |-> 0,
     tbSeq |-> 0,
     users |-> Users,
     categories |-> Categories,
     sousCategories |-> SousCategories]

\* no transaction and no banking operation yet
Init ==
    /\ \E caisse \in SoldesInitiaux, banque \in SoldesInitiaux :
         /\ db = InitialDb(caisse, banque)
         /\ soldeInitial = Soldes(db)
    /\ last = [op |-> "init", status |-> 0, id |-> 0, ancien |-> ""]
    /\ rt = RtNone
    /\ liees = 0
    /\ unite = UniteAucune
    /\ requetes = RequetesAucunes
    /\ cache = <<>>
    /\ horloge = 0
    /\ recues = 0

\* the same, or after one cheque withdrawal was recorded
InitCheque ==
    /\ \E caisse \in SoldesInitiaux, banque \in SoldesInitiaux :
         LET d0 == InitialDb(caisse, banque)
         IN /\ soldeInitial = Soldes(d0)
            /\ \/ db = d0
               \/ \E body \in BancaireBodies :
                    /\ body.numeroCheque = Cheque1
                    /\ createTransactionBancaire(d0, d0, body, CaisseId).status = 201
                    /\ db = createTransactionBancaire(d0, d0, body, CaisseId).db
    /\ last = [op |-> "init", status |-> 0, id |-> 0, ancien |-> ""]
    /\ rt = RtNone
    /\ liees = 0
    /\ unite = UniteAucune
    /\ requetes = RequetesAucunes
    /\ cache = <<>>
    /\ horloge = 0
    /\ recues = 0

Served(r) == r.status \in {200, 201}

Respond(op, r, ancien) ==
    /\ db' = r.db
    /\ last' = [op |-> op, status |-> r.status, id |-> r.id, ancien |-> ancien]
    /\ UNCHANGED <<soldeInitial, unite, requetes, cache, horloge, recues>>

CreateTransaction ==
    \E body \in TransactionBodies : \E userId \in Acteurs(body) :
        \E r \in {createTransaction(db, userId, body)} :
           /\ db.txSeq < MaxTx
           /\ IF Served(r)
              THEN /\ Respond("createTransaction", r, "")
                   /\ rt' = RtCreated("transaction", r)
                   /\ UNCHANGED liees
              ELSE UNCHANGED vars

\* the transactionBancaire row findFirst returns for the stored description
ChequeLie(d, id) ==
    IF id \in DOMAIN d.transactions
       /\ extractChequeNumber(d.transactions[id].description) # Null
    THEN findFirstCheque(d, extractChequeNumber(d.transactions[id].description))
    ELSE {0}

\* the update takes the banking-linked branch
BrancheLiee(d, id, tb) ==
    /\ id \in DOMAIN d.transactions
    /\ isTransactionBancaire(d.transactions[id].description, d.transactions[id].type)
    /\ tb # 0

UpdateTransaction ==
    \E id \in 1..MaxTx, compteCaisse \in findFirstCaisse(db) :
      \E tb \in ChequeLie(db, id), body \in TransactionPatches :
        \E userId \in Acteurs(body) :
        \E r \in {updateTransaction(db, userId, id, body, compteCaisse, tb)} :
           IF Served(r)
           THEN /\ r.db.tbSeq <= MaxTb
                /\ Respond("updateTransaction", r,
                           IF isTransactionBancaire(db.transactions[id].description,
                                                    db.transactions[id].type)
                           THEN "LIEE" ELSE "SIMPLE")
                /\ rt' = RtNone
                /\ liees' = IF BrancheLiee(db, id, tb) THEN liees + 1 ELSE liees
                /\ liees' <= MaxLiees
           ELSE UNCHANGED vars

DeleteTransaction ==
    \E userId \in DOMAIN db.users, id \in 1..MaxTx :
        \E r \in {deleteTransaction(db, userId, id)} :
           IF Served(r)
           THEN /\ Respond("deleteTransaction", r, "")
                /\ rt' = RtDeleted("transaction", r)
                /\ UNCHANGED liees
           ELSE UNCHANGED vars

CreateTransactionBancaire ==
    \E body \in BancaireBodies, compteCaisse \in findFirstCaisse(db) :
        \E r \in {createTransactionBancaire(db, db, body, compteCaisse)} :
           /\ db.tbSeq < MaxTb
           /\ IF Served(r)
              THEN /\ Respond("createTransactionBancaire", r, "")
                   /\ rt' = RtCreated("transactionBancaire", r)
                   /\ UNCHANGED liees
              ELSE UNCHANGED vars

UpdateTransactionBancaire ==
    \E id \in 1..MaxTb, body \in BancairePatches, compteCaisse \in findFirstCaisse(db) :
        \E r \in {updateTransactionBancaire(db, db, id, body, compteCaisse)} :
           IF Served(r)
           THEN /\ Respond("updateTransactionBancaire", r, db.transactionsBancaires[id].type)
                /\ rt' = RtNone
                /\ UNCHANGED liees
           ELSE UNCHANGED vars

DeleteTransactionBancaire ==
    \E id \in 1..MaxTb, compteCaisse \in findFirstCaisse(db) :
        \E r \in {deleteTransactionBancaire(db, db, id, compteCaisse)} :
           IF Served(r)
           THEN /\ Respond("deleteTransactionBancaire", r, "")
                /\ rt' = RtDeleted("transactionBancaire", r)
                /\ UNCHANGED liees
           ELSE UNCHANGED vars

UpdateCategory ==
    \E id \in 1..(Cardinality(DOMAIN db.categories) + 1), body \in CategoriePatches :
        \E r \in {updateCategory(db, id, body)} :
           IF Served(r)
           THEN /\ Respond("updateCategory", r, "")
                /\ rt' = RtNone
                /\ UNCHANGED liees
           ELSE UNCHANGED vars

UpdateCompte ==
    \E id \in CompteIds \cup {AbsentCompteId}, body \in ComptePatches :
        \E r \in {updateCompte(db, id, body)} :
           IF Served(r)
           THEN /\ Respond("updateCompte", r, "")
                /\ rt' = RtNone
                /\ UNCHANGED liees
           ELSE UNCHANGED vars

\* the <<categorie, sousCategorie>> pairs the two findFirst calls can return
CategoriesTrouvees(d, type) ==
    UNION { IF c = 0 THEN {<<0, 0>>}
            ELSE { <<c, sc>> : sc \in findFirstSousCategorie(d, c) } :
            c \in findFirstCategorie(d, type) }

AlimenterCompteSecretaire ==
    \E userId \in DOMAIN db.users, id \in CompteIds \cup {AbsentCompteId},
       body \in AlimenterBodies :
      \E depense \in CategoriesTrouvees(db, "DEPENSE"),
         recette \in CategoriesTrouvees(db, "RECETTE") :
        \E r \in {alimenterCompteSecretaire(db, db, userId, id, body, depense, recette)} :
           /\ db.txSeq < MaxTx + 2 * (MaxAlimentations - 1) + 1
           /\ IF Served(r)
              THEN /\ Respond("alimenterCompteSecretaire", r, "")
                   /\ rt' = RtNone
                   /\ UNCHANGED liees
              ELSE UNCHANGED vars

CreateTransactionDatee ==
    \E body \in RecapBodies : \E userId \in Acteurs(body) :
        \E r \in {createTransaction(db, userId, body)} :
           /\ db.txSeq < MaxRecapTx
           /\ IF Served(r)
              THEN /\ Respond("createTransaction", r, "")
                   /\ rt' = RtNone
                   /\ UNCHANGED liees
              ELSE UNCHANGED vars

DeleteCompte ==
    \E id \in CompteIds \cup {AbsentCompteId} :
        \E r \in {deleteCompte(db, id)} :
           IF Served(r)
           THEN /\ Respond("deleteCompte", r, "")
                /\ rt' = RtNone
                /\ UNCHANGED liees
           ELSE UNCHANGED vars

GetRecapitulation ==
    \E userId \in DOMAIN db.users, dateDebut \in 0..MaxDate, dateFin \in 0..MaxDate :
        \E r \in {getRecapitulation(db, userId, dateDebut, dateFin)} :
           IF Served(r)
           THEN /\ Respond("getRecapitulation", r, "")
                /\ rt' = RtNone
                /\ UNCHANGED liees
           ELSE UNCHANGED vars

\* the seeded database with a second sous-categorie under the mixed categorie
InitRecap ==
    /\ \E caisse \in SoldesInitiaux, banque \in SoldesInitiaux :
         /\ db = [InitialDb(caisse, banque) EXCEPT
                    !.sousCategories = Append(@, [categorieId |-> 2])]
         /\ soldeInitial = Soldes(db)
    /\ last = [op |-> "init", status |-> 0, id |-> 0, ancien |-> ""]
    /\ rt = RtNone
    /\ liees = 0
    /\ unite = UniteAucune
    /\ requetes = RequetesAucunes
    /\ cache = <<>>
    /\ horloge = 0
    /\ recues = 0

\* the updateData the controller hands to updateTransactionWithBalance
UpdateDataDe(d, userId, id, body) ==
    LET currentUser == d.users[userId]
        secretaire == currentUser.role = "SECRETAIRE" /\ currentUser.compteSecretaireId # 0
    IN [categorieId |-> body.categorieId,
        sousCategorieId |-> IF body.sousCategorieId # 0
                            THEN body.sousCategorieId
                            ELSE d.transactions[id].sousCategorieId,
        compteId |-> IF secretaire THEN currentUser.compteSecretaireId ELSE body.compteId,
        dateTransaction |-> body.dateTransaction,
        description |-> body.description,
        montant |-> body.montant,
        type |-> body.type]

\* a unit of work: the request's outcome, and its writes one by one
Plan(op, r, etapes) == [op |-> op, attendu |-> r.db, etapes |-> etapes]

PlansTransaction(d) ==
    { Plan("createTransaction", createTransaction(d, q[1], q[2]),
           EcrituresCreateTransaction(d, q[2])) :
        q \in { q \in (DOMAIN d.users) \X TransactionBodies :
                  /\ q[1] \in Acteurs(q[2])
                  /\ Served(createTransaction(d, q[1], q[2])) } }
    \cup
    UNION { { Plan("updateTransaction",
                   updateTransaction(d, q[1], q[2], q[3], q[4], tb),
                   IF BrancheLiee(d, q[2], tb)
                   THEN EcrituresUpdateLiee(d, q[2], UpdateDataDe(d, q[1], q[2], q[3]),
                                            q[4], tb)
                   ELSE EcrituresUpdateSimple(d, q[2], UpdateDataDe(d, q[1], q[2], q[3]))) :
                tb \in { t \in ChequeLie(d, q[2]) :
                           Served(updateTransaction(d, q[1], q[2], q[3], q[4], t)) } } :
            q \in { q \in (DOMAIN d.users) \X (DOMAIN d.transactions)
                            \X TransactionPatches \X findFirstCaisse(d) :
                      q[1] \in Acteurs(q[3]) } }
    \cup
    { Plan("deleteTransaction", deleteTransaction(d, q[1], q[2]),
           EcrituresDeleteTransaction(d, q[2])) :
        q \in { q \in (DOMAIN d.users) \X (DOMAIN d.transactions) :
                  Served(deleteTransaction(d, q[1], q[2])) } }

PlansBancaire(d) ==
    { Plan("createTransactionBancaire", createTransactionBancaire(d, d, q[1], q[2]),
           EcrituresCreateBancaire(d, q[1], q[2])) :
        q \in { q \in BancaireBodies \X findFirstCaisse(d) :
                  Served(createTransactionBancaire(d, d, q[1], q[2])) } }
    \cup
    { Plan("updateTransactionBancaire",
           updateTransactionBancaire(d, d, q[1], q[2], q[3]),
           EcrituresUpdateBancaire(d, q[1], q[2], q[3])) :
        q \in { q \in (DOMAIN d.transactionsBancaires) \X BancairePatches
                        \X findFirstCaisse(d) :
                  Served(updateTransactionBancaire(d, d, q[1], q[2], q[3])) } }
    \cup
    { Plan("deleteTransactionBancaire", deleteTransactionBancaire(d, d, q[1], q[2]),
           EcrituresDeleteBancaire(d, q[1], q[2])) :
        q \in { q \in (DOMAIN d.transactionsBancaires) \X findFirstCaisse(d) :
                  Served(deleteTransactionBancaire(d, d, q[1], q[2])) } }

\* prisma.$transaction(async (tx) => ...) is entered: nothing written yet
OuvrirUnite ==
    /\ unite.phase # "ouverte"
    /\ unite.n < MaxUnites
    /\ \E p \in PlansTransaction(db) \cup PlansBancaire(db) :
         unite' = [phase |-> "ouverte", op |-> p.op, avant |-> db,
                   attendu |-> p.attendu, etapes |-> p.etapes,
                   k |-> 0, n |-> unite.n + 1]
    /\ UNCHANGED <<db, soldeInitial, last, rt, liees, requetes, cache, horloge, recues>>

\* the same write sent through the global prisma client: committed at once
EcrireUniteHorsUnite ==
    /\ unite.phase = "ouverte"
    /\ unite.k < Len(unite.etapes)
    /\ unite' = [unite EXCEPT !.k = @ + 1]
    /\ db' = unite.etapes[unite.k + 1]
    /\ UNCHANGED <<soldeInitial, last, rt, liees, requetes, cache, horloge, recues>>

\* one more write through the tx client: visible to the unit only
EcrireUnite ==
    /\ unite.phase = "ouverte"
    /\ unite.k < Len(unite.etapes)
    /\ unite' = [unite EXCEPT !.k = @ + 1]
    /\ UNCHANGED <<db, soldeInitial, last, rt, liees, requetes, cache, horloge, recues>>

\* a persistence step throws: the callback rejects and the unit rolls back
EchecUnite ==
    /\ unite.phase = "ouverte"
    /\ unite' = [unite EXCEPT !.phase = "annulee"]
    /\ UNCHANGED <<db, soldeInitial, last, rt, liees, requetes, cache, horloge, recues>>

\* the callback returns: every write of the unit is committed together
ValiderUnite ==
    /\ unite.phase = "ouverte"
    /\ unite.k = Len(unite.etapes)
    /\ db' = unite.etapes[unite.k]
    /\ unite' = [unite EXCEPT !.phase = "validee"]
    /\ last' = [op |-> unite.op, status |-> 200, id |-> 0, ancien |-> ""]
    /\ UNCHANGED <<soldeInitial, rt, liees, requetes, cache, horloge, recues>>

\* a database holding at most one banking operation and one transaction
InitUnite ==
    /\ \E caisse \in SoldesInitiaux, banque \in SoldesInitiaux :
         LET d0 == InitialDb(caisse, banque)
         IN /\ soldeInitial = Soldes(d0)
            /\ \E d1 \in {d0} \cup { createTransactionBancaire(d0, d0, body, CaisseId).db :
                                       body \in BancaireBodies } :
                 \E d2 \in {d1} \cup { createTransaction(d1, q[1], q[2]).db :
                                         q \in { q \in (DOMAIN d1.users) \X TransactionBodies :
                                                   q[1] \in Acteurs(q[2]) } } :
                    db = d2
    /\ last = [op |-> "init", status |-> 0, id |-> 0, ancien |-> ""]
    /\ rt = RtNone
    /\ liees = 0
    /\ unite = UniteAucune
    /\ requetes = RequetesAucunes
    /\ cache = <<>>
    /\ horloge = 0
    /\ recues = 0

NextUnite == OuvrirUnite \/ EcrireUnite \/ EchecUnite \/ ValiderUnite

Next == CreateTransaction \/ UpdateTransaction \/ DeleteTransaction

NextTb ==
    CreateTransactionBancaire \/ UpdateTransactionBancaire \/ DeleteTransactionBancaire

NextCategorie == CreateTransaction \/ UpdateTransaction \/ UpdateCategory

NextCompte == CreateTransaction \/ UpdateCompte

\* transactions, with a cheque withdrawal they can be linked to
Spec == InitCheque /\ [][Next]_vars

\* transactions, and changes to the categories they are filed under
SpecCategorie == Init /\ [][NextCategorie]_vars

\* transactions and a cheque withdrawal, and changes of the type of a compte
SpecCompte == InitCheque /\ [][NextCompte]_vars

\* standalone banking operations
SpecTb == Init /\ [][NextTb]_vars

NextAlimenter == CreateTransaction \/ AlimenterCompteSecretaire

\* transactions, and fundings of the secretary account
SpecAlimenter == Init /\ [][NextAlimenter]_vars

NextRecap == CreateTransactionDatee \/ DeleteCompte \/ GetRecapitulation

\* dated transactions, deletions of comptes, and recapitulations
SpecRecap == InitRecap /\ [][NextRecap]_vars

\* one request of any kind, followed write by write to its commit or rollback
SpecUnite == InitUnite /\ [][NextUnite]_vars

----------------------------------------------------------------------------
(* Two requests at the same time.  prisma.$transaction is called without   *)
(* an isolationLevel and the datasource is PostgreSQL, so a unit of work    *)
(* runs READ COMMITTED: every statement sees what is committed when it      *)
(* starts plus the unit's own writes, a write waits while another open      *)
(* unit holds the row, and the rows a unit wrote are released when it ends. *)

\* the database as the statements of a unit with writes w see it
Vue(d, w) ==
    [d EXCEPT
       !.comptes = [c \in DOMAIN d.comptes |->
                      IF c \in DOMAIN w.soldes
                      THEN [d.comptes[c] EXCEPT !.soldeActuel = w.soldes[c]]
                      ELSE d.comptes[c]],
       !.transactions = [i \in ((DOMAIN d.transactions) \cup (DOMAIN w.lignes))
                                  \ w.supprimees |->
                           IF i \in DOMAIN w.lignes
                           THEN w.lignes[i] ELSE d.transactions[i]]]

\* the compte rows and the transaction rows the open units other than p hold
VerrousComptes(p) ==
    UNION { DOMAIN requetes[q].ecrits.soldes :
              q \in { q \in (DOMAIN requetes) \ {p} : requetes[q].phase = "ouverte" } }

VerrousLignes(p) ==
    UNION { (DOMAIN requetes[q].ecrits.lignes) \cup requetes[q].ecrits.supprimees :
              q \in { q \in (DOMAIN requetes) \ {p} : requetes[q].phase = "ouverte" } }

\* the callback throws: the unit is rolled back and the handler answers
Rejetee(r, status) ==
    [r EXCEPT !.phase = "annulee", !.status = status, !.ecrits = EcritsAucuns]

Etape(r, bloque, txSeq) == [req |-> r, bloque |-> bloque, txSeq |-> txSeq]

\* the statement after the last one of the callback
Fin(r) ==
    IF r.op = "createTransaction" THEN 4
    ELSE IF r.op = "deleteTransaction" THEN 5
    ELSE 7

\* createTransactionWithBalance statement by statement: tx.transaction.create
\* (line 16; the id comes from the sequence, which is never rolled back),
\* tx.compte.findUnique (34), tx.compte.update (44)
PasCreateTransaction(d, r, verrousComptes, verrousLignes) ==
    LET v == Vue(d, r.ecrits)
        transactionData == r.arg.data
        compteId == transactionData.compteId
        montantAjouter == IF transactionData.type = "RECETTE"
                          THEN Abs(transactionData.montant)
                          ELSE -Abs(transactionData.montant)
    IN IF r.pc = 1
       THEN Etape([r EXCEPT !.pc = 2, !.arg.id = d.txSeq + 1,
                            !.ecrits.lignes = Put(@, d.txSeq + 1, transactionData)],
                  FALSE, d.txSeq + 1)
       ELSE IF r.pc = 2
       THEN Etape([r EXCEPT !.pc = 3, !.lu.solde = v.comptes[compteId].soldeActuel],
                  FALSE, d.txSeq)
       ELSE Etape([r EXCEPT !.pc = 4,
                            !.ecrits.soldes = Put(@, compteId, r.lu.solde + montantAjouter)],
                  compteId \in verrousComptes, d.txSeq)

\* updateTransactionWithBalance, plain branch, statement by statement:
\* tx.transaction.findUnique (71), tx.compte.findUnique (244),
\* tx.transaction.update (255), then tx.compte.update (272),
\* tx.compte.findUnique (278) and tx.compte.update (283) when the compte
\* changes, else the single tx.compte.update (293)
PasUpdateTransaction(d, r, verrousComptes, verrousLignes) ==
    LET v == Vue(d, r.ecrits)
        id == r.arg.id
        updateData == r.arg.data
        oldTransaction == r.lu.transaction
        nouveauMontant == IF updateData.montant # 0
                          THEN updateData.montant ELSE oldTransaction.montant
        nouveauType == IF updateData.type # "" THEN updateData.type ELSE oldTransaction.type
        nouveauCompteId == IF updateData.compteId # 0
                           THEN updateData.compteId ELSE oldTransaction.compteId
        montantAnnuler == IF oldTransaction.type = "RECETTE"
                          THEN -Abs(oldTransaction.montant) ELSE Abs(oldTransaction.montant)
        soldeAncienCompteApresAnnulation == r.lu.solde + montantAnnuler
        montantAjouter == IF nouveauType = "RECETTE"
                          THEN Abs(nouveauMontant) ELSE -Abs(nouveauMontant)
    IN IF r.pc = 1
       THEN IF id \notin DOMAIN v.transactions
            THEN Etape(Rejetee(r, ErrorStatus("Transaction non trouvee")), FALSE, d.txSeq)
            ELSE Etape([r EXCEPT !.pc = 2, !.lu.transaction = v.transactions[id]],
                       FALSE, d.txSeq)
       ELSE IF r.pc = 2
       THEN Etape([r EXCEPT !.pc = 3,
                            !.lu.solde = v.comptes[oldTransaction.compteId].soldeActuel],
                  FALSE, d.txSeq)
       ELSE IF r.pc = 3
       THEN IF id \in verrousLignes
            THEN Etape(r, TRUE, d.txSeq)
            ELSE IF id \notin DOMAIN v.transactions
            THEN Etape(Rejetee(r, ErrorStatus("P2025")), FALSE, d.txSeq)
            ELSE Etape([r EXCEPT !.pc = 4,
                                 !.ecrits.lignes =
                                     Put(@, id, ApplyUpdateData(v.transactions[id],
                                                                updateData))],
                       FALSE, d.txSeq)
       ELSE IF r.pc = 4
       THEN IF nouveauCompteId # oldTransaction.compteId
            THEN Etape([r EXCEPT !.pc = 5,
                                 !.ecrits.soldes = Put(@, oldTransaction.compteId,
                                                       soldeAncienCompteApresAnnulation)],
                       oldTransaction.compteId \in verrousComptes, d.txSeq)
            ELSE Etape([r EXCEPT !.pc = 7,
                                 !.ecrits.soldes =
                                     Put(@, nouveauCompteId,
                                         soldeAncienCompteApresAnnulation + montantAjouter)],
                       nouveauCompteId \in verrousComptes, d.txSeq)
       ELSE IF r.pc = 5
       THEN Etape([r EXCEPT !.pc = 6,
                            !.lu.solde2 = v.comptes[nouveauCompteId].soldeActuel],
                  FALSE, d.txSeq)
       ELSE Etape([r EXCEPT !.pc = 7,
                            !.ecrits.soldes = Put(@, nouveauCompteId,
                                                  r.lu.solde2 + montantAjouter)],
                  nouveauCompteId \in verrousComptes, d.txSeq)

\* deleteTransactionWithBalance statement by statement:
\* tx.transaction.findUnique (311), tx.compte.findUnique (320),
\* tx.compte.update (330), tx.transaction.delete (336)
PasDeleteTransaction(d, r, verrousComptes, verrousLignes) ==
    LET v == Vue(d, r.ecrits)
        id == r.arg.id
        transaction == r.lu.transaction
        montantRestaurer == IF transaction.type = "RECETTE"
                            THEN -Abs(transaction.montant) ELSE Abs(transaction.montant)
    IN IF r.pc = 1
       THEN IF id \notin DOMAIN v.transactions
            THEN Etape(Rejetee(r, ErrorStatus("Transaction non trouvee")), FALSE, d.txSeq)
            ELSE Etape([r EXCEPT !.pc = 2, !.lu.transaction = v.transactions[id]],
                       FALSE, d.txSeq)
       ELSE IF r.pc = 2
       THEN Etape([r EXCEPT !.pc = 3,
                            !.lu.solde = v.comptes[transaction.compteId].soldeActuel],
                  FALSE, d.txSeq)
       ELSE IF r.pc = 3
       THEN Etape([r EXCEPT !.pc = 4,
                            !.ecrits.soldes = Put(@, transaction.compteId,
                                                  r.lu.solde + montantRestaurer)],
                  transaction.compteId \in verrousComptes, d.txSeq)
       ELSE IF id \in verrousLignes
       THEN Etape(r, TRUE, d.txSeq)
       ELSE IF id \notin DOMAIN v.transactions
       THEN Etape(Rejetee(r, ErrorStatus("P2025")), FALSE, d.txSeq)
       ELSE Etape([r EXCEPT !.pc = 5, !.ecrits.supprimees = @ \cup {id}],
                  FALSE, d.txSeq)

\* requests without a cheque number on the cash or the bank compte
CreationsConcurrentes ==
    { body \in TransactionBodies :
        /\ body.description = Null
        /\ body.montant \in Montants
        /\ body.compteId \in {CaisseId, BanqueId} }

RetouchesConcurrentes ==
    { body \in TransactionPatches :
        /\ body.description = Undefined
        /\ body.categorieId = 0 /\ body.sousCategorieId = 0
        /\ body.montant \in {0} \cup Montants
        /\ body.compteId \in {0, BanqueId}
        /\ body.type = ""
        /\ FieldsSent(body) >= 1 }

\* the handler has validated the request against what is committed and
\* calls the service: prisma.$transaction is entered
Ouverte(op, arg) ==
    [RequeteAucune EXCEPT !.phase = "ouverte", !.op = op, !.arg = arg, !.pc = 1]

OuvrirCreateTransaction ==
    \E p \in DOMAIN requetes, body \in CreationsConcurrentes :
        /\ requetes[p].phase = "aucune"
        /\ Served(createTransaction(db, AdminUserId, body))
        /\ requetes' = [requetes EXCEPT ![p] =
                          [Ouverte("createTransaction", [id |-> 0, data |-> body])
                             EXCEPT !.origine = requetes[p].origine]]
        /\ UNCHANGED <<db, soldeInitial, last, rt, liees, unite, cache, horloge, recues>>

OuvrirUpdateTransaction ==
    \E p \in DOMAIN requetes, id \in DOMAIN db.transactions,
       body \in RetouchesConcurrentes :
        /\ requetes[p].phase = "aucune"
        /\ Served(updateTransaction(db, AdminUserId, id, body, CaisseId, 0))
        /\ requetes' = [requetes EXCEPT ![p] =
                          [Ouverte("updateTransaction",
                                   [id |-> id,
                                    data |-> UpdateDataDe(db, AdminUserId, id, body)])
                             EXCEPT !.origine = requetes[p].origine]]
        /\ UNCHANGED <<db, soldeInitial, last, rt, liees, unite, cache, horloge, recues>>

OuvrirDeleteTransaction ==
    \E p \in DOMAIN requetes, id \in DOMAIN db.transactions :
        /\ requetes[p].phase = "aucune"
        /\ Served(deleteTransaction(db, AdminUserId, id))
        /\ requetes' = [requetes EXCEPT ![p] =
                          [Ouverte("deleteTransaction", [id |-> id, data |-> Null])
                             EXCEPT !.origine = requetes[p].origine]]
        /\ UNCHANGED <<db, soldeInitial, last, rt, liees, unite, cache, horloge, recues>>

\* the next statement of an open unit is executed, unless it has to wait
Pas(p, etape) ==
    /\ requetes[p].phase = "ouverte"
    /\ requetes[p].pc < Fin(requetes[p])
    /\ ~etape.bloque
    /\ requetes' = [requetes EXCEPT ![p] = etape.req]
    /\ db' = [db EXCEPT !.txSeq = etape.txSeq]
    /\ UNCHANGED <<soldeInitial, last, rt, liees, unite, cache, horloge, recues>>

ExecuterCreateTransaction ==
    \E p \in DOMAIN requetes :
        /\ requetes[p].op = "createTransaction"
        /\ Pas(p, PasCreateTransaction(db, requetes[p],
                                       VerrousComptes(p), VerrousLignes(p)))

ExecuterUpdateTransaction ==
    \E p \in DOMAIN requetes :
        /\ requetes[p].op = "updateTransaction"
        /\ Pas(p, PasUpdateTransaction(db, requetes[p],
                                       VerrousComptes(p), VerrousLignes(p)))

ExecuterDeleteTransaction ==
    \E p \in DOMAIN requetes :
        /\ requetes[p].op = "deleteTransaction"
        /\ Pas(p, PasDeleteTransaction(db, requetes[p],
                                       VerrousComptes(p), VerrousLignes(p)))

\* the callback has returned: the unit commits what it wrote
ValiderRequete ==
    \E p \in DOMAIN requetes :
        /\ requetes[p].phase = "ouverte"
        /\ requetes[p].pc = Fin(requetes[p])
        /\ db' = Vue(db, requetes[p].ecrits)
        /\ requetes' = [requetes EXCEPT ![p] =
                          [@ EXCEPT !.phase = "validee", !.status = 200,
                                    !.ecrits = EcritsAucuns, !.lu = LuRien]]
        /\ last' = [op |-> requetes[p].op, status |-> 200,
                    id |-> requetes[p].arg.id, ancien |-> ""]
        /\ UNCHANGED <<soldeInitial, rt, liees, unite, cache, horloge, recues>>

\* a database holding one transaction without a cheque number; every request
\* remembers it
InitConcurrent ==
    /\ \E caisse \in SoldesInitiaux, banque \in SoldesInitiaux :
         \E body \in CreationsConcurrentes :
             LET r == createTransaction(InitialDb(caisse, banque), AdminUserId, body)
             IN /\ Served(r)
                /\ db = r.db
                /\ soldeInitial = Soldes(InitialDb(caisse, banque))
    /\ last = [op |-> "init", status |-> 0, id |-> 0, ancien |-> ""]
    /\ rt = RtNone
    /\ liees = 0
    /\ unite = UniteAucune
    /\ requetes = [p \in 1..MaxRequetes |-> [RequeteAucune EXCEPT !.origine = db]]
    /\ cache = <<>>
    /\ horloge = 0
    /\ recues = 0

NextConcurrent ==
    \/ OuvrirCreateTransaction \/ OuvrirUpdateTransaction \/ OuvrirDeleteTransaction
    \/ ExecuterCreateTransaction \/ ExecuterUpdateTransaction
    \/ ExecuterDeleteTransaction
    \/ ValiderRequete

SpecConcurrent == InitConcurrent /\ [][NextConcurrent]_vars

----------------------------------------------------------------------------
(* Handlers that read through the global client before they enter their     *)
(* unit of work.  The request is followed in two steps: what it reads when  *)
(* it arrives, and its unit of work later.  The first statements of two     *)
(* such units write the same compte rows, so the second waits for the end   *)
(* of the first: the units themselves run one after the other.              *)

Lue(op, arg, d) ==
    [RequeteAucune EXCEPT !.phase = "lue", !.op = op, !.arg = arg, !.lu.db = d]

Repondue(r, reponse, d) ==
    [r EXCEPT !.phase = IF Served(reponse) THEN "validee" ELSE "annulee",
              !.status = reponse.status, !.avant = d, !.lu = LuRien]

\* patches of a montant or a type, the cheque number left alone
RetouchesBancairesConcurrentes ==
    { body \in BancairePatches :
        /\ body.numeroCheque = Undefined
        /\ body.montant \in {0} \cup Montants
        /\ body.montant # 0 \/ body.type # "" }

\* transactionBancaireController.js lines 201-239: existingTransaction and
\* compteCaisse are read, the request is validated
RecevoirUpdateTransactionBancaire ==
    \E p \in DOMAIN requetes, id \in DOMAIN db.transactionsBancaires,
       body \in RetouchesBancairesConcurrentes, compteCaisse \in findFirstCaisse(db) :
        /\ requetes[p].phase = "aucune"
        /\ updateTransactionBancaireCheck(db, id, body, compteCaisse) = 0
        /\ requetes' = [requetes EXCEPT ![p] =
                          Lue("updateTransactionBancaire",
                              [id |-> id, data |-> body, compteCaisse |-> compteCaisse],
                              db)]
        /\ UNCHANGED <<db, soldeInitial, last, rt, liees, unite, cache, horloge, recues>>

\* transactionBancaireController.js lines 334-354
RecevoirDeleteTransactionBancaire ==
    \E p \in DOMAIN requetes, id \in DOMAIN db.transactionsBancaires,
       compteCaisse \in findFirstCaisse(db) :
        /\ requetes[p].phase = "aucune"
        /\ compteCaisse # 0
        /\ requetes' = [requetes EXCEPT ![p] =
                          Lue("deleteTransactionBancaire",
                              [id |-> id, data |-> Null, compteCaisse |-> compteCaisse],
                              db)]
        /\ UNCHANGED <<db, soldeInitial, last, rt, liees, unite, cache, horloge, recues>>

\* the unit of work of the request and its answer
Repondre(p, reponse) ==
    /\ db' = reponse.db
    /\ requetes' = [requetes EXCEPT ![p] = Repondue(@, reponse, db)]
    /\ last' = [op |-> requetes[p].op, status |-> reponse.status,
                id |-> reponse.id, ancien |-> ""]
    /\ UNCHANGED <<soldeInitial, rt, liees, unite, cache, horloge, recues>>

\* transactionBancaireController.js lines 242-322
RepondreUpdateTransactionBancaire ==
    \E p \in DOMAIN requetes :
        /\ requetes[p].phase = "lue"
        /\ requetes[p].op = "updateTransactionBancaire"
        /\ Repondre(p, updateTransactionBancaire(db, requetes[p].lu.db,
                                                 requetes[p].arg.id, requetes[p].arg.data,
                                                 requetes[p].arg.compteCaisse))

\* transactionBancaireController.js lines 357-390
RepondreDeleteTransactionBancaire ==
    \E p \in DOMAIN requetes :
        /\ requetes[p].phase = "lue"
        /\ requetes[p].op = "deleteTransactionBancaire"
        /\ Repondre(p, deleteTransactionBancaire(db, requetes[p].lu.db,
                                                 requetes[p].arg.id,
                                                 requetes[p].arg.compteCaisse))

\* a database holding one banking operation
InitBancaireConcurrent ==
    /\ \E caisse \in SoldesInitiaux, banque \in SoldesInitiaux :
         \E body \in BancaireBodies :
             LET d0 == InitialDb(caisse, banque)
                 r == createTransactionBancaire(d0, d0, body, CaisseId)
             IN /\ Served(r)
                /\ db = r.db
                /\ soldeInitial = Soldes(d0)
    /\ last = [op |-> "init", status |-> 0, id |-> 0, ancien |-> ""]
    /\ rt = RtNone
    /\ liees = 0
    /\ unite = UniteAucune
    /\ requetes = RequetesAucunes
    /\ cache = <<>>
    /\ horloge = 0
    /\ recues = 0

NextBancaireConcurrent ==
    \/ RecevoirUpdateTransactionBancaire \/ RecevoirDeleteTransactionBancaire
    \/ RepondreUpdateTransactionBancaire \/ RepondreDeleteTransactionBancaire

SpecBancaireConcurrent == InitBancaireConcurrent /\ [][NextBancaireConcurrent]_vars

\* fundings of the secretary compte from the cash or the bank compte
AlimentationsConcurrentes ==
    { body \in AlimenterBodies :
        body.montant \in Montants /\ body.compteSourceId \in {CaisseId, BanqueId} }

\* compteSecretaireController.js lines 122-166: the two comptes are read with
\* their balances, the request is validated
RecevoirAlimentation ==
    \E p \in DOMAIN requetes, body \in AlimentationsConcurrentes :
      \E depense \in CategoriesTrouvees(db, "DEPENSE"),
         recette \in CategoriesTrouvees(db, "RECETTE") :
        /\ requetes[p].phase = "aucune"
        /\ Served(alimenterCompteSecretaire(db, db, AdminUserId, SecretaireId, body,
                                            depense, recette))
        /\ requetes' = [requetes EXCEPT ![p] =
                          Lue("alimenterCompteSecretaire",
                              [id |-> SecretaireId, data |-> body], db)]
        /\ UNCHANGED <<db, soldeInitial, last, rt, liees, unite, cache, horloge, recues>>

\* compteSecretaireController.js lines 169-284
RepondreAlimentation ==
    \E p \in DOMAIN requetes :
      \E depense \in CategoriesTrouvees(db, "DEPENSE"),
         recette \in CategoriesTrouvees(db, "RECETTE") :
        /\ requetes[p].phase = "lue"
        /\ requetes[p].op = "alimenterCompteSecretaire"
        /\ Repondre(p, alimenterCompteSecretaire(db, requetes[p].lu.db, AdminUserId,
                                                 requetes[p].arg.id, requetes[p].arg.data,
                                                 depense, recette))

NextAlimenterConcurrent ==
    CreateTransaction \/ RecevoirAlimentation \/ RepondreAlimentation

SpecAlimenterConcurrent == Init /\ [][NextAlimenterConcurrent]_vars

----------------------------------------------------------------------------
(* Amounts as the program holds them: DECIMAL(15,2) in the columns          *)
(* solde_actuel and montant, IEEE-754 doubles once parseFloat has read      *)
(* them.  A natural number is the sequence of its digits in base Base,      *)
(* least significant first, without leading zero digits.                    *)

Base == 32768
BaseBits == 15

Petit(n) == IF n = 0 THEN <<>> ELSE <<n>>

RECURSIVE Normal(_)
Normal(a) ==
    IF a = <<>> THEN <<>>
    ELSE IF a[Len(a)] = 0 THEN Normal(SubSeq(a, 1, Len(a) - 1)) ELSE a

Limb(a, i) == IF i <= Len(a) THEN a[i] ELSE 0

RECURSIVE AddFrom(_, _, _, _)
AddFrom(a, b, i, carry) ==
    IF i > Len(a) /\ i > Len(b)
    THEN Petit(carry)
    ELSE LET t == Limb(a, i) + Limb(b, i) + carry
         IN <<t % Base>> \o AddFrom(a, b, i + 1, t \div Base)

AddN(a, b) == Normal(AddFrom(a, b, 1, 0))

\* a - b for a >= b
RECURSIVE SubFrom(_, _, _, _)
SubFrom(a, b, i, borrow) ==
    IF i > Len(a)
    THEN <<>>
    ELSE LET t == Limb(a, i) - Limb(b, i) - borrow
         IN IF t < 0
            THEN <<t + Base>> \o SubFrom(a, b, i + 1, 1)
            ELSE <<t>> \o SubFrom(a, b, i + 1, 0)

SubN(a, b) == Normal(SubFrom(a, b, 1, 0))

\* -1, 0 or 1 as a is below, equal to or above b
RECURSIVE CmpFrom(_, _, _)
CmpFrom(a, b, i) ==
    IF i = 0 THEN 0
    ELSE IF a[i] < b[i] THEN -1
    ELSE IF a[i] > b[i] THEN 1
    ELSE CmpFrom(a, b, i - 1)

CmpN(a, b) ==
    IF Len(a) < Len(b) THEN -1
    ELSE IF Len(a) > Len(b) THEN 1
    ELSE CmpFrom(a, b, Len(a))

\* a * n for 0 <= n < Base
RECURSIVE MulFrom(_, _, _, _)
MulFrom(a, n, i, carry) ==
    IF i > Len(a)
    THEN Petit(carry)
    ELSE LET t == a[i] * n + carry
         IN <<t % Base>> \o MulFrom(a, n, i + 1, t \div Base)

MulSmall(a, n) == Normal(MulFrom(a, n, 1, 0))

\* quotient and remainder of a by n, 0 < n <= Base
RECURSIVE DivFrom(_, _, _, _)
DivFrom(a, n, i, r) ==
    IF i = 0
    THEN [q |-> <<>>, r |-> r]
    ELSE LET t == r * Base + a[i]
             rest == DivFrom(a, n, i - 1, t % n)
         IN [q |-> rest.q \o <<t \div n>>, r |-> rest.r]

DivSmall(a, n) ==
    LET d == DivFrom(a, n, Len(a), 0) IN [q |-> Normal(d.q), r |-> d.r]

\* a * 2^k and floor(a / 2^k)
ShiftL(a, k) ==
    IF a = <<>> THEN <<>>
    ELSE [i \in 1..(k \div BaseBits) |-> 0] \o MulSmall(a, 2 ^ (k % BaseBits))

ShiftR(a, k) ==
    IF Len(a) <= k \div BaseBits THEN <<>>
    ELSE DivSmall(SubSeq(a, (k \div BaseBits) + 1, Len(a)), 2 ^ (k % BaseBits)).q

RECURSIVE BitLenSmall(_)
BitLenSmall(x) == IF x = 0 THEN 0 ELSE 1 + BitLenSmall(x \div 2)

BitLen(a) == IF a = <<>> THEN 0 ELSE BaseBits * (Len(a) - 1) + BitLenSmall(a[Len(a)])

Odd(a) == a # <<>> /\ a[1] % 2 = 1

\* a / 2^k rounded to the nearest integer, ties to even (k >= 1)
RoundShift(a, k) ==
    LET q == ShiftR(a, k)
        c == CmpN(SubN(a, ShiftL(q, k)), ShiftL(<<1>>, k - 1))
    IN IF c > 0 \/ (c = 0 /\ Odd(q)) THEN AddN(q, <<1>>) ELSE q

\* a DECIMAL(15,2) value: sign and hundredths; the column holds 15 digits
Decimal(neg, cents) == [neg |-> neg /\ cents # <<>>, cents |-> cents]

\* 10^15 hundredths, the first value the 15 digits cannot hold
LimiteDecimal == <<0, 18829, 13818, 28>>

\* a double: sign, significand m and scale s, for the value m / 2^s
Mantisse == 53

ZeroDouble == [neg |-> FALSE, m |-> <<>>, s |-> 0]

Significande(neg, m, s, bits) ==
    IF BitLen(m) > bits
    THEN [neg |-> neg, m |-> ShiftR(m, 1), s |-> s - 1]
    ELSE [neg |-> neg, m |-> m, s |-> s]

\* variant: a significand of 48 bits instead of 53
ArrondirCourt(neg, T, S) ==
    IF T = <<>> THEN ZeroDouble
    ELSE LET k == BitLen(T) - 48
         IN IF k <= 0
            THEN [neg |-> neg, m |-> ShiftL(T, -k), s |-> S - k]
            ELSE Significande(neg, RoundShift(T, k), S - k, 48)

\* the double nearest to T / 2^S (round to nearest, ties to even)
ArrondirDouble(neg, T, S) ==
    IF T = <<>> THEN ZeroDouble
    ELSE LET k == BitLen(T) - Mantisse
         IN IF k <= 0
            THEN [neg |-> neg, m |-> ShiftL(T, -k), s |-> S - k]
            ELSE Significande(neg, RoundShift(T, k), S - k, Mantisse)

\* parseFloat of a DECIMAL(15,2) value: the double nearest to cents / 100.
\* The quotient is taken on 70 more bits and the remainder kept as one
\* sticky bit, so that the single rounding is the correct one.
parseFloat(decimal) ==
    LET d == DivSmall(ShiftL(decimal.cents, 70), 100)
        T == AddN(MulSmall(d.q, 2), IF d.r > 0 THEN <<1>> ELSE <<>>)
    IN ArrondirDouble(decimal.neg, T, 71)

MathAbs(x) == [x EXCEPT !.neg = FALSE]

Oppose(x) == [x EXCEPT !.neg = ~@]

\* x + y of two doubles: the exact sum, rounded once
Plus(x, y) ==
    LET S == IF x.s > y.s THEN x.s ELSE y.s
        X == ShiftL(x.m, S - x.s)
        Y == ShiftL(y.m, S - y.s)
    IN IF x.neg = y.neg
       THEN ArrondirDouble(x.neg, AddN(X, Y), S)
       ELSE IF CmpN(X, Y) >= 0
       THEN ArrondirDouble(x.neg, SubN(X, Y), S)
       ELSE ArrondirDouble(y.neg, SubN(Y, X), S)

\* what the column keeps of a double written to it: the value rounded to two
\* fractional digits.  The client sends the number as decimal text; when the
\* double is within half a unit in the last place of the middle between two
\* hundredths the text may be that middle or not, and either neighbour can be
\* kept.
EnDecimal(x) ==
    IF x.m = <<>> THEN {Decimal(FALSE, <<>>)}
    ELSE
    LET T == MulSmall(x.m, 100)
        q == ShiftR(T, x.s)
        c == CmpN(SubN(T, ShiftL(q, x.s)), ShiftL(<<1>>, x.s - 1))
        proche == IF c >= 0 THEN AddN(q, <<1>>) ELSE q
        A == MulSmall(x.m, 200)
        B == ShiftL(AddN(MulSmall(q, 2), <<1>>), x.s)
        ecart == IF CmpN(A, B) >= 0 THEN SubN(A, B) ELSE SubN(B, A)
    IN IF CmpN(ecart, <<100>>) <= 0
       THEN {Decimal(x.neg, q), Decimal(x.neg, AddN(q, <<1>>))}
       ELSE {Decimal(x.neg, proche)}

\* the value has more than 15 digits: "numeric field overflow"
Deborde(decimal) == CmpN(decimal.cents, LimiteDecimal) >= 0

\* createTransactionWithBalance on DECIMAL(15,2) columns (lines 16-47);
\* transactionData.montant is the double the handler made of the request
createTransactionWithBalanceDecimal(d, transactionData) ==
    LET id == d.txSeq + 1
        compte == d.comptes[transactionData.compteId]
        montantAjouter == IF transactionData.type = "RECETTE"
                          THEN MathAbs(transactionData.montant)
                          ELSE Oppose(MathAbs(transactionData.montant))
        nouveauSolde == Plus(parseFloat(compte.soldeActuel), montantAjouter)
    IN { IF Deborde(w[1]) \/ Deborde(w[2])
         THEN [err |-> "22003", id |-> 0, db |-> d]
         ELSE [err |-> "", id |-> id,
               db |-> SetSolde([d EXCEPT !.transactions =
                                             Put(@, id, [transactionData
                                                           EXCEPT !.montant = w[1]]),
                                         !.txSeq = id],
                               transactionData.compteId, w[2])] :
           w \in EnDecimal(transactionData.montant) \X EnDecimal(nouveauSolde) }

\* deleteTransactionWithBalance on DECIMAL(15,2) columns (lines 311-338)
deleteTransactionWithBalanceDecimal(d, id) ==
    LET transaction == d.transactions[id]
        compte == d.comptes[transaction.compteId]
        montantRestaurer == IF transaction.type = "RECETTE"
                            THEN Oppose(MathAbs(parseFloat(transaction.montant)))
                            ELSE MathAbs(parseFloat(transaction.montant))
        nouveauSolde == Plus(parseFloat(compte.soldeActuel), montantRestaurer)
    IN { IF Deborde(w)
         THEN [err |-> "22003", id |-> 0, db |-> d]
         ELSE [err |-> "", id |-> id,
               db |-> [SetSolde(d, transaction.compteId, w)
                         EXCEPT !.transactions = Remove(@, id)]] :
           w \in EnDecimal(nouveauSolde) }

\* balances and amounts in hundredths (digits in base Base)
CentsSoldes ==
  {
    <<>>,                               \* 0.00
    <<1>>,                              \* 0.01
    <<10>>,                             \* 0.10
    <<30>>,                             \* 0.30
    <<2196, 3>>,                        \* 1005.00
    <<32767, 32767, 32767, 24>>,        \* 8796093022207.99
    <<1, 0, 0, 25>>,                    \* 8796093022208.01
    <<24441, 3099, 16674, 3>>,          \* 1234567890123.45
    <<32766, 18828, 13818, 28>>,        \* 9999999999999.98
    <<32767, 18828, 13818, 28>>         \* 9999999999999.99
  }

CentsMontants ==
  {
    <<1>>,                              \* 0.01
    <<7>>,                              \* 0.07
    <<10>>,                             \* 0.10
    <<20>>,                             \* 0.20
    <<2196, 3>>,                        \* 1005.00
    <<21845, 28121, 15528, 9>>,         \* 3333333333333.33
    <<32767, 18828, 13818, 28>>         \* 9999999999999.99
  }

SoldesDecimaux == { Decimal(neg, cents) : neg \in BOOLEAN, cents \in CentsSoldes }

MontantsDecimaux == { Decimal(FALSE, cents) : cents \in CentsMontants }

InitDecimal ==
    /\ \E solde \in { x \in SoldesDecimaux : ~Deborde(x) } :
         db = SetSolde(InitialDb(0, 0), CaisseId, solde)
    /\ soldeInitial = Soldes(db)
    /\ last = [op |-> "init", status |-> 0, id |-> 0, ancien |-> ""]
    /\ rt = RtNone
    /\ liees = 0
    /\ unite = UniteAucune
    /\ requetes = RequetesAucunes
    /\ cache = <<>>
    /\ horloge = 0
    /\ recues = 0

\* a movement is applied to the cash compte
CreateTransactionDecimal ==
    \E montant \in MontantsDecimaux, type \in {"RECETTE", "DEPENSE"} :
        \E r \in createTransactionWithBalanceDecimal(db,
                    [categorieId |-> IF type = "DEPENSE" THEN 1 ELSE 2,
                     sousCategorieId |-> IF type = "DEPENSE" THEN 1 ELSE 2,
                     compteId |-> CaisseId, dateTransaction |-> 1,
                     description |-> Null, montant |-> parseFloat(montant),
                     type |-> type]) :
           /\ db.txSeq < MaxCycles
           /\ IF r.err = ""
              THEN /\ Respond("createTransaction", [status |-> 201, id |-> r.id, db |-> r.db], "")
                   /\ rt' = RtCreated("transaction", r)
                   /\ UNCHANGED liees
              ELSE /\ last' = [op |-> "createTransaction", status |-> ErrorStatus(r.err),
                               id |-> 0, ancien |-> ""]
                   /\ UNCHANGED <<db, soldeInitial, rt, liees, unite, requetes, cache, horloge, recues>>

\* the movement of a row is reversed
DeleteTransactionDecimal ==
    \E id \in DOMAIN db.transactions :
        \E r \in deleteTransactionWithBalanceDecimal(db, id) :
           IF r.err = ""
           THEN /\ Respond("deleteTransaction", [status |-> 200, id |-> r.id, db |-> r.db], "")
                /\ rt' = RtDeleted("transaction", r)
                /\ UNCHANGED liees
           ELSE /\ last' = [op |-> "deleteTransaction", status |-> ErrorStatus(r.err),
                            id |-> 0, ancien |-> ""]
                /\ UNCHANGED <<db, soldeInitial, rt, liees, unite, requetes, cache, horloge, recues>>

NextDecimal == CreateTransactionDecimal \/ DeleteTransactionDecimal

SpecDecimal == InitDecimal /\ [][NextDecimal]_vars

----------------------------------------------------------------------------
(* Properties *)

RECURSIVE Somme(_, _)
Somme(f, S) ==
    IF S = {} THEN 0
    ELSE LET x == CHOOSE y \in S : TRUE IN f[x] + Somme(f, S \ {x})

\* the signed amount of a transaction: +montant for RECETTE, -montant for DEPENSE
MontantSigne(t) == IF t.type = "RECETTE" THEN t.montant ELSE -t.montant

\* what a transaction contributes to the balance of compte c
EffetTransaction(t, c) == IF t.compteId = c THEN MontantSigne(t) ELSE 0

\* what a banking operation of the given type and amount, on bank account
\* banque, contributes to compte c: a RETRAIT takes the amount off the bank
\* and puts it in the cash account, a DEPOT the reverse
EffetBancaire(type, montant, banque, caisse, c) ==
    LET versBanque == IF type = "DEPOT" THEN montant ELSE -montant
    IN (IF c = banque THEN versBanque ELSE 0) + (IF c = caisse THEN -versBanque ELSE 0)

\* the balance the ledger rows account for
SoldeAttendu(c) ==
    soldeInitial[c]
    + Somme([i \in DOMAIN db.transactions |-> EffetTransaction(db.transactions[i], c)],
            DOMAIN db.transactions)
    + Somme([b \in DOMAIN db.transactionsBancaires |->
                EffetBancaire(db.transactionsBancaires[b].type,
                              db.transactionsBancaires[b].montant,
                              db.transactionsBancaires[b].compteId, CaisseId, c)],
            DOMAIN db.transactionsBancaires)

\* C1: at every quiescent point each account's balance is its initial balance
\* plus the signed amounts of its transactions plus the legs of the banking
\* operations that touch it.  The banking-linked branch of the transaction
\* update breaks it.
LedgerInvariant ==
    \A c \in DOMAIN db.comptes : db.comptes[c].soldeActuel = SoldeAttendu(c)

\* C2: a served transaction creation inserts exactly one row, with the amount,
\* type and account of the request, adds the signed amount to that account
\* and leaves every other account, row and banking operation as it was.
CreateTransactionEffect ==
    \A body \in TransactionBodies : \A userId \in Acteurs(body) :
        LET r == createTransaction(db, userId, body)
        IN Served(r) =>
             /\ r.id \notin DOMAIN db.transactions
             /\ DOMAIN r.db.transactions = DOMAIN db.transactions \cup {r.id}
             /\ \A i \in DOMAIN db.transactions :
                    r.db.transactions[i] = db.transactions[i]
             /\ r.db.transactions[r.id].montant = body.montant
             /\ r.db.transactions[r.id].type = body.type
             /\ r.db.transactions[r.id].compteId \in DOMAIN db.comptes
             /\ userId = AdminUserId => r.db.transactions[r.id].compteId = body.compteId
             /\ \A c \in DOMAIN db.comptes :
                    r.db.comptes[c].soldeActuel =
                        db.comptes[c].soldeActuel
                        + EffetTransaction(r.db.transactions[r.id], c)
             /\ r.db.transactionsBancaires = db.transactionsBancaires

\* an expense was recorded on the bank account, whose balance went down by it
CreateTransactionWitness ==
    /\ last.op = "createTransaction"
    /\ last.status = 201
    /\ last.id \in DOMAIN db.transactions
    /\ db.transactions[last.id].type = "DEPENSE"
    /\ db.transactions[last.id].compteId = BanqueId
    /\ db.comptes[BanqueId].soldeActuel =
           soldeInitial[BanqueId] - db.transactions[last.id].montant

\* C3: a served update of a transaction that is banking-linked neither before
\* nor after takes the old signed amount off the old account and adds the new
\* signed amount to the new account, the new values being those of the
\* request where sent and the stored ones otherwise.
UpdateTransactionEffect ==
    \A id \in DOMAIN db.transactions, body \in TransactionPatches :
      \A userId \in Acteurs(body), compteCaisse \in findFirstCaisse(db),
         tb \in ChequeLie(db, id) :
        LET r == updateTransaction(db, userId, id, body, compteCaisse, tb)
            old == db.transactions[id]
            new == r.db.transactions[id]
        IN (/\ Served(r)
            /\ ~isTransactionBancaire(old.description, old.type)
            /\ ~isTransactionBancaire(new.description, new.type))
           =>
             /\ new.montant = IF body.montant # 0 THEN body.montant ELSE old.montant
             /\ new.type = IF body.type # "" THEN body.type ELSE old.type
             /\ new.compteId = IF body.compteId # 0 /\ userId = AdminUserId
                               THEN body.compteId ELSE old.compteId
             /\ \A c \in DOMAIN db.comptes :
                    r.db.comptes[c].soldeActuel =
                        db.comptes[c].soldeActuel
                        - EffetTransaction(old, c) + EffetTransaction(new, c)
             /\ DOMAIN r.db.transactions = DOMAIN db.transactions
             /\ r.db.transactionsBancaires = db.transactionsBancaires

\* a plain transaction was updated while a cheque withdrawal exists, and sits
\* on another account than the cash account
UpdateTransactionWitness ==
    /\ last.op = "updateTransaction"
    /\ last.ancien = "SIMPLE"
    /\ last.id \in DOMAIN db.transactions
    /\ ~isTransactionBancaire(db.transactions[last.id].description,
                              db.transactions[last.id].type)
    /\ db.transactions[last.id].compteId = BanqueId
    /\ db.transactions[last.id].type = "RECETTE"
    /\ db.transactionsBancaires # EmptyTable

\* C4: a served deletion removes the row and takes its signed amount off its
\* account, nothing else; deleting an id that has no row answers 404 and
\* changes nothing.
DeleteTransactionEffect ==
    \A userId \in DOMAIN db.users, id \in 1..(MaxTx + 1) :
        LET r == deleteTransaction(db, userId, id)
        IN /\ id \notin DOMAIN db.transactions => r.status = 404 /\ r.db = db
           /\ Served(r) =>
                /\ id \in DOMAIN db.transactions
                /\ r.db.transactions = Remove(db.transactions, id)
                /\ \A c \in DOMAIN db.comptes :
                       r.db.comptes[c].soldeActuel =
                           db.comptes[c].soldeActuel
                           - EffetTransaction(db.transactions[id], c)
                /\ r.db.transactionsBancaires = db.transactionsBancaires

\* a transaction was deleted: its id has no row any more
DeleteTransactionWitness ==
    /\ last.op = "deleteTransaction"
    /\ last.status = 200
    /\ last.id \notin DOMAIN db.transactions
    /\ db.txSeq >= last.id

\* C5: creating a transaction and deleting it at once leaves every balance as
\* it was before the creation.
TransactionRoundTrip ==
    (rt.phase = "deleted" /\ rt.table = "transaction") => Soldes(db) = rt.soldes

TransactionRoundTripWitness ==
    /\ rt.phase = "deleted"
    /\ rt.table = "transaction"
    /\ last.op = "deleteTransaction"
    /\ rt.id = last.id

\* C6: a served standalone banking operation inserts one row and moves the
\* amount between the bank account and the cash account (RETRAIT: bank to
\* cash, DEPOT: cash to bank); the sum of the two balances and every other
\* account are unchanged.
CreateTransactionBancaireEffect ==
    \A body \in BancaireBodies, compteCaisse \in findFirstCaisse(db) :
        LET r == createTransactionBancaire(db, db, body, compteCaisse)
        IN Served(r) =>
             /\ r.id \notin DOMAIN db.transactionsBancaires
             /\ DOMAIN r.db.transactionsBancaires =
                    DOMAIN db.transactionsBancaires \cup {r.id}
             /\ \A b \in DOMAIN db.transactionsBancaires :
                    r.db.transactionsBancaires[b] = db.transactionsBancaires[b]
             /\ r.db.transactionsBancaires[r.id].type = body.type
             /\ r.db.transactionsBancaires[r.id].montant = body.montant
             /\ r.db.transactionsBancaires[r.id].compteId = body.compteId
             /\ r.db.transactionsBancaires[r.id].numeroCheque = body.numeroCheque
             /\ body.compteId # compteCaisse
             /\ \A c \in DOMAIN db.comptes :
                    r.db.comptes[c].soldeActuel =
                        db.comptes[c].soldeActuel
                        + EffetBancaire(body.type, body.montant, body.compteId,
                                        compteCaisse, c)
             /\ r.db.comptes[body.compteId].soldeActuel
                + r.db.comptes[compteCaisse].soldeActuel
                = db.comptes[body.compteId].soldeActuel
                  + db.comptes[compteCaisse].soldeActuel
             /\ r.db.transactions = db.transactions

\* a deposit was recorded: the cash went down and the bank went up
CreateTransactionBancaireWitness ==
    /\ last.op = "createTransactionBancaire"
    /\ last.status = 201
    /\ last.id \in DOMAIN db.transactionsBancaires
    /\ db.transactionsBancaires[last.id].type = "DEPOT"
    /\ db.comptes[BanqueId].soldeActuel > soldeInitial[BanqueId]
    /\ db.comptes[CaisseId].soldeActuel < soldeInitial[CaisseId]

\* C7: creating a standalone banking operation and deleting it at once leaves
\* the cash and the bank balance as they were before the creation.
TransactionBancaireRoundTrip ==
    (rt.phase = "deleted" /\ rt.table = "transactionBancaire")
        => Soldes(db) = rt.soldes

TransactionBancaireRoundTripWitness ==
    /\ rt.phase = "deleted"
    /\ rt.table = "transactionBancaire"
    /\ last.op = "deleteTransactionBancaire"
    /\ rt.id = last.id

\* C8: a served update of a standalone banking operation leaves the balances
\* as after reversing the old movement and applying the new one, for the four
\* combinations of old and new direction; they are the balances deleting the
\* operation and creating one with the new direction and amount gives; the
\* stored row carries the new direction and amount.
UpdateTransactionBancaireEffect ==
    \A id \in DOMAIN db.transactionsBancaires, body \in BancairePatches,
       compteCaisse \in findFirstCaisse(db) :
        LET r == updateTransactionBancaire(db, db, id, body, compteCaisse)
            old == db.transactionsBancaires[id]
            newType == IF body.type # "" THEN body.type ELSE old.type
            newAmount == IF body.montant # 0 THEN body.montant ELSE old.montant
            deleted == deleteTransactionBancaire(db, db, id, compteCaisse)
            created == createTransactionBancaire(
                           deleted.db, deleted.db,
                           [compteId |-> old.compteId, dateOperation |-> 1,
                            description |-> Null, montant |-> newAmount,
                            type |-> newType,
                            numeroCheque |-> r.db.transactionsBancaires[id].numeroCheque],
                           compteCaisse)
        IN Served(r) =>
             /\ r.db.transactionsBancaires[id].type = newType
             /\ r.db.transactionsBancaires[id].montant = newAmount
             /\ r.db.transactionsBancaires[id].compteId = old.compteId
             /\ DOMAIN r.db.transactionsBancaires = DOMAIN db.transactionsBancaires
             /\ \A c \in DOMAIN db.comptes :
                    r.db.comptes[c].soldeActuel =
                        db.comptes[c].soldeActuel
                        - EffetBancaire(old.type, old.montant, old.compteId,
                                        compteCaisse, c)
                        + EffetBancaire(newType, newAmount, old.compteId,
                                        compteCaisse, c)
             /\ (Served(deleted) /\ Served(created))
                    => Soldes(r.db) = Soldes(created.db)
             /\ r.db.transactions = db.transactions

\* a withdrawal was turned into a deposit
UpdateTransactionBancaireWitness ==
    /\ last.op = "updateTransactionBancaire"
    /\ last.status = 200
    /\ last.ancien = "RETRAIT"
    /\ last.id \in DOMAIN db.transactionsBancaires
    /\ db.transactionsBancaires[last.id].type = "DEPOT"
    /\ db.comptes[BanqueId].soldeActuel > soldeInitial[BanqueId]

\* C9: no two banking operations carry the same cheque number.  The check is
\* made for withdrawals only, so a deposit can repeat a number.
NumeroChequeUnique ==
    \A a, b \in DOMAIN db.transactionsBancaires :
        (a # b /\ db.transactionsBancaires[a].numeroCheque # Null)
            => db.transactionsBancaires[a].numeroCheque
               # db.transactionsBancaires[b].numeroCheque

\* C10: a banking operation whose cheque number is already used is refused
\* with 409 and changes nothing.  A withdrawal is refused with 400; a deposit
\* is recorded.
NumeroChequeConflict ==
    \A body \in BancaireBodies, compteCaisse \in findFirstCaisse(db) :
        (/\ body.numeroCheque # Null
         /\ findFirstCheque(db, body.numeroCheque) # {0}
         /\ body.compteId = BanqueId
         /\ body.montant \in Montants
         /\ body.montant <= db.comptes[CaisseId].soldeActuel
         /\ body.montant <= db.comptes[BanqueId].soldeActuel)
        => LET r == createTransactionBancaire(db, db, body, compteCaisse)
           IN r.status = 409 /\ r.db = db


\* every withdrawal stored in d carries a cheque number
RetraitsNumerotes(d) ==
    \A b \in DOMAIN d.transactionsBancaires :
        d.transactionsBancaires[b].type = "RETRAIT"
            => d.transactionsBancaires[b].numeroCheque # Null

\* C11: every stored RETRAIT banking operation has a cheque number: the
\* transaction handlers (the banking-linked update among them) keep it so,
\* a standalone create or update whose effective direction is RETRAIT and
\* whose effective cheque number is absent is refused without a write, and
\* the standalone create and update that are served keep it so.
RetraitNumeroCheque ==
    /\ RetraitsNumerotes(db)
    /\ \A body \in BancaireBodies, compteCaisse \in findFirstCaisse(db) :
          LET r == createTransactionBancaire(db, db, body, compteCaisse)
          IN /\ (body.type = "RETRAIT" /\ body.numeroCheque = Null)
                    => (~Served(r) /\ r.db = db)
             /\ RetraitsNumerotes(r.db)
    /\ \A id \in DOMAIN db.transactionsBancaires, body \in BancairePatches,
          compteCaisse \in findFirstCaisse(db) :
          LET r == updateTransactionBancaire(db, db, id, body, compteCaisse)
              old == db.transactionsBancaires[id]
              newType == IF body.type # "" THEN body.type ELSE old.type
              newNumeroCheque == IF body.numeroCheque # Undefined
                                 THEN body.numeroCheque ELSE old.numeroCheque
          IN /\ (newType = "RETRAIT" /\ newNumeroCheque = Null)
                    => (~Served(r) /\ r.db = db)
             /\ RetraitsNumerotes(r.db)

\* a banking-linked update replaced the withdrawal by one with another number
RetraitNumeroChequeWitness ==
    /\ last.op = "updateTransaction"
    /\ last.ancien = "LIEE"
    /\ db.tbSeq > 1
    /\ db.tbSeq \in DOMAIN db.transactionsBancaires
    /\ db.transactionsBancaires[db.tbSeq].type = "RETRAIT"
    /\ db.transactionsBancaires[db.tbSeq].numeroCheque = Cheque2

\* C12: a served creation of a DEPENSE on the cash account whose description
\* carries CHQ-n, no banking operation carrying n, also inserts a RETRAIT
\* banking operation with number n and the same amount, and leaves the cash
\* balance unchanged and the bank balance lower by the amount.  The creation
\* writes the transaction only.
CreateTransactionReconciles ==
    \A body \in TransactionBodies :
        LET n == extractChequeNumber(body.description)
            r == createTransaction(db, AdminUserId, body)
        IN (/\ body.type = "DEPENSE"
            /\ body.compteId = CaisseId
            /\ n # Null
            /\ findFirstCheque(db, n) = {0}
            /\ Served(r))
           => /\ \E b \in DOMAIN r.db.transactionsBancaires :
                   /\ b \notin DOMAIN db.transactionsBancaires
                   /\ r.db.transactionsBancaires[b].type = "RETRAIT"
                   /\ r.db.transactionsBancaires[b].numeroCheque = n
                   /\ r.db.transactionsBancaires[b].montant = body.montant
              /\ r.db.comptes[CaisseId].soldeActuel = db.comptes[CaisseId].soldeActuel
              /\ r.db.comptes[BanqueId].soldeActuel =
                     db.comptes[BanqueId].soldeActuel - body.montant

\* the sub-category sc exists and its parent is not the category c
HorsCategorie(d, sc, c) ==
    sc \in DOMAIN d.sousCategories /\ d.sousCategories[sc].categorieId # c

\* C13: a transaction creation, or an update, whose effective sub-category
\* (the request's, else the stored one) does not belong to the effective
\* category is refused and writes nothing; it is refused with 400 when the
\* actor is the administrator and, for a creation, the other fields are
\* present and valid.
SousCategorieHorsCategorie ==
    /\ \A body \in TransactionBodies : \A userId \in Acteurs(body) :
          LET r == createTransaction(db, userId, body)
          IN HorsCategorie(db, body.sousCategorieId, body.categorieId)
             => /\ ~Served(r)
                /\ r.db = db
                /\ (/\ userId = AdminUserId
                    /\ body.montant > 0
                    /\ body.categorieId \in DOMAIN db.categories
                    /\ body.compteId \in DOMAIN db.comptes) => r.status = 400
    /\ \A id \in DOMAIN db.transactions, body \in TransactionPatches :
        \A userId \in Acteurs(body), compteCaisse \in findFirstCaisse(db),
           tb \in ChequeLie(db, id) :
          LET r == updateTransaction(db, userId, id, body, compteCaisse, tb)
              old == db.transactions[id]
              sc == IF body.sousCategorieId # 0
                    THEN body.sousCategorieId ELSE old.sousCategorieId
              c == IF body.categorieId # 0 THEN body.categorieId ELSE old.categorieId
          IN HorsCategorie(db, sc, c)
             => /\ ~Served(r)
                /\ r.db = db
                /\ userId = AdminUserId => r.status = 400

\* a transaction is stored, and a request that moves it to another category
\* while keeping its sub-category is answered 400; so is a creation that
\* names a sub-category of another category
SousCategorieHorsCategorieWitness ==
    /\ last.op = "createTransaction"
    /\ last.id \in DOMAIN db.transactions
    /\ \E body \in TransactionPatches :
          /\ body.sousCategorieId = 0
          /\ body.categorieId # 0
          /\ HorsCategorie(db, db.transactions[last.id].sousCategorieId, body.categorieId)
          /\ \E compteCaisse \in findFirstCaisse(db), tb \in ChequeLie(db, last.id) :
                updateTransaction(db, AdminUserId, last.id, body, compteCaisse, tb).status
                    = 400
    /\ \E body \in TransactionBodies :
          /\ HorsCategorie(db, body.sousCategorieId, body.categorieId)
          /\ createTransaction(db, AdminUserId, body).status = 400

\* C14: every stored transaction has a positive amount, a sub-category of
\* its category, and the type of its category unless the category is the
\* mixed one, whatever transactions are created and updated and whatever
\* categories are updated.  A category update that changes the type (or the
\* name of the mixed category) leaves the transactions filed under it behind.
TransactionRecordInvariant ==
    \A i \in DOMAIN db.transactions :
        LET t == db.transactions[i]
        IN /\ t.montant > 0
           /\ t.sousCategorieId \in DOMAIN db.sousCategories
           /\ db.sousCategories[t.sousCategorieId].categorieId = t.categorieId
           /\ \/ isFikambananaMasina(db.categories[t.categorieId])
              \/ db.categories[t.categorieId].type = t.type

\* the answer r to a request made in the current state is an error that
\* left the database as it was
SansEcriture(r) == Served(r) \/ (r.status \in {400, 403, 404, 409, 500} /\ r.db = db)

\* C15: a transaction create, update or delete, or a standalone banking
\* create, update or delete, that ends in an error leaves every balance,
\* every transaction and every banking operation as before; a non-positive
\* amount, an absent account, an account that is not a bank, a withdrawal
\* without or with a used cheque number and an insufficient balance are
\* such errors.
ErreurSansEcriture ==
    /\ \A body \in TransactionBodies : \A userId \in Acteurs(body) :
          LET r == createTransaction(db, userId, body)
          IN /\ SansEcriture(r)
             /\ (body.montant <= 0 \/ body.compteId \notin DOMAIN db.comptes)
                    => ~Served(r)
    /\ \A id \in 1..(MaxTx + 1), body \in TransactionPatches :
        \A userId \in Acteurs(body), compteCaisse \in findFirstCaisse(db),
           tb \in ChequeLie(db, id) :
          LET r == updateTransaction(db, userId, id, body, compteCaisse, tb)
          IN /\ SansEcriture(r)
             /\ (\/ id \notin DOMAIN db.transactions
                 \/ body.montant < 0
                 \/ body.compteId = AbsentCompteId) => ~Served(r)
    /\ \A id \in 1..(MaxTx + 1), userId \in DOMAIN db.users :
          SansEcriture(deleteTransaction(db, userId, id))
    /\ \A body \in BancaireBodies, compteCaisse \in findFirstCaisse(db) :
          LET r == createTransactionBancaire(db, db, body, compteCaisse)
          IN /\ SansEcriture(r)
             /\ (\/ body.montant <= 0
                 \/ body.compteId \notin DOMAIN db.comptes
                 \/ db.comptes[body.compteId].type # "BANQUE"
                 \/ (body.type = "RETRAIT" /\ body.numeroCheque = Null)
                 \/ (body.type = "RETRAIT"
                     /\ findFirstCheque(db, body.numeroCheque) # {0})
                 \/ (body.type = "RETRAIT"
                     /\ db.comptes[body.compteId].soldeActuel < body.montant)
                 \/ (body.type = "DEPOT"
                     /\ db.comptes[compteCaisse].soldeActuel < body.montant))
                    => ~Served(r)
    /\ \A id \in 1..(MaxTb + 1), body \in BancairePatches,
          compteCaisse \in findFirstCaisse(db) :
          LET r == updateTransactionBancaire(db, db, id, body, compteCaisse)
          IN /\ SansEcriture(r)
             /\ id \notin DOMAIN db.transactionsBancaires => ~Served(r)
    /\ \A id \in 1..(MaxTb + 1), compteCaisse \in findFirstCaisse(db) :
          LET r == deleteTransactionBancaire(db, db, id, compteCaisse)
          IN /\ SansEcriture(r)
             /\ id \notin DOMAIN db.transactionsBancaires => ~Served(r)

\* a transaction and a banking operation are stored and the bank balance is
\* below the largest amount: a withdrawal of that amount is answered 400, and
\* so is an update of the transaction to a negative amount
ErreurSansEcritureWitness ==
    /\ last.op = "updateTransaction"
    /\ db.transactions # EmptyTable
    /\ db.transactionsBancaires # EmptyTable
    /\ db.comptes[BanqueId].soldeActuel < MaxMontant
    /\ \E body \in BancaireBodies, compteCaisse \in findFirstCaisse(db) :
          /\ body.type = "RETRAIT"
          /\ body.compteId = BanqueId
          /\ body.montant = MaxMontant
          /\ body.numeroCheque # Null
          /\ findFirstCheque(db, body.numeroCheque) = {0}
          /\ createTransactionBancaire(db, db, body, compteCaisse).status = 400
    /\ \E body \in TransactionPatches, compteCaisse \in findFirstCaisse(db),
          tb \in ChequeLie(db, last.id) :
          /\ body.montant < 0
          /\ updateTransaction(db, AdminUserId, last.id, body, compteCaisse, tb).status
                 = 400

\* no compte of type CAISSE is stored
SansCaisse == \A c \in DOMAIN db.comptes : db.comptes[c].type # "CAISSE"

\* the request changes the description or the amount only
RetoucheSimple(body) ==
    /\ body.categorieId = 0
    /\ body.sousCategorieId = 0
    /\ body.type = ""
    /\ body.montant >= 0

\* C16: while no compte of type CAISSE exists, a standalone banking create,
\* update or delete, and a transaction update whose old or new state is
\* banking-linked, are refused and write nothing; the answer is the missing
\* cash account error (500) whenever the request passes the checks the
\* handler makes before it looks for the cash account.
SansCaisseSansEcriture ==
    SansCaisse =>
      /\ \A body \in BancaireBodies, compteCaisse \in findFirstCaisse(db) :
            LET r == createTransactionBancaire(db, db, body, compteCaisse)
            IN /\ ~Served(r)
               /\ r.db = db
               /\ createTransactionBancaireCheck(db, body, CaisseId) = 0
                      => r.status = 500
      /\ \A id \in DOMAIN db.transactionsBancaires, body \in BancairePatches,
            compteCaisse \in findFirstCaisse(db) :
            LET r == updateTransactionBancaire(db, db, id, body, compteCaisse)
            IN r.status = 500 /\ r.db = db
      /\ \A id \in DOMAIN db.transactionsBancaires,
            compteCaisse \in findFirstCaisse(db) :
            LET r == deleteTransactionBancaire(db, db, id, compteCaisse)
            IN r.status = 500 /\ r.db = db
      /\ \A id \in DOMAIN db.transactions, body \in TransactionPatches :
          \A userId \in Acteurs(body), compteCaisse \in findFirstCaisse(db),
             tb \in ChequeLie(db, id) :
            LET r == updateTransaction(db, userId, id, body, compteCaisse, tb)
                old == db.transactions[id]
                newDescription == IF body.description # Undefined
                                  THEN body.description ELSE old.description
                nouveauType == IF body.type # "" THEN body.type ELSE old.type
            IN (\/ isTransactionBancaire(old.description, old.type)
                \/ isTransactionBancaire(newDescription, nouveauType))
               => /\ ~Served(r)
                  /\ r.db = db
                  /\ (userId = AdminUserId /\ RetoucheSimple(body))
                         => r.status = 500

\* the cash account was given another type while a banking operation and a
\* transaction that carries its cheque number are stored
SansCaisseWitness ==
    /\ SansCaisse
    /\ last.op = "updateCompte"
    /\ db.transactionsBancaires # EmptyTable
    /\ \E id \in DOMAIN db.transactions :
          /\ isTransactionBancaire(db.transactions[id].description,
                                   db.transactions[id].type)
          /\ ChequeLie(db, id) # {0}

\* C17: all-or-nothing.  While a unit of work is running, and after it
\* failed at any of its persistence steps, the database holds none of its
\* writes: it is the database the unit started from.  Once the unit
\* committed, the database holds all of them: it is the outcome the request
\* handler computes, which is also what the last write of the unit left.
UniteToutOuRien ==
    /\ unite.phase \in {"ouverte", "annulee"} => db = unite.avant
    /\ unite.phase = "validee" => db = unite.attendu
    /\ unite.phase # "aucune" => unite.etapes[Len(unite.etapes)] = unite.attendu

\* a linked update failed between its balance writes and its last write
UniteToutOuRienWitness ==
    /\ unite.phase = "annulee"
    /\ unite.op = "updateTransaction"
    /\ Len(unite.etapes) > 3
    /\ unite.k > 1
    /\ unite.k < Len(unite.etapes)
    /\ Soldes(unite.etapes[unite.k]) # Soldes(unite.avant)
    /\ unite.etapes[unite.k] # unite.attendu

\* the banking operation linked to the transaction once the update is done:
\* the row found before the update, or the one inserted in its place
OperationLiee(avant, apres, tb) ==
    IF tb \in DOMAIN apres.transactionsBancaires THEN tb ELSE apres.tbSeq

\* C18: a served update of a DEPENSE transaction whose stored description
\* carries a cheque number, a banking operation with that number existing,
\* and the transaction staying a DEPENSE: with a the stored amount and b the
\* new one (the amount sent, a when none is sent), the bank account of the
\* banking operation ends a - b higher, the cash account and every other
\* account end unchanged, and the banking operation's montant is b.
UpdateLieeMontants ==
    \A id \in DOMAIN db.transactions, body \in TransactionPatches :
      \A userId \in Acteurs(body), compteCaisse \in findFirstCaisse(db),
         tb \in ChequeLie(db, id) :
        LET r == updateTransaction(db, userId, id, body, compteCaisse, tb)
            old == db.transactions[id]
            new == r.db.transactions[id]
            a == old.montant
            b == new.montant
            compteBanque == db.transactionsBancaires[tb].compteId
        IN (/\ Served(r)
            /\ BrancheLiee(db, id, tb)
            /\ new.type = "DEPENSE")
           =>
             /\ b = IF body.montant # 0 THEN body.montant ELSE a
             /\ compteBanque # compteCaisse
             /\ r.db.comptes[compteBanque].soldeActuel =
                    db.comptes[compteBanque].soldeActuel + a - b
             /\ \A c \in DOMAIN db.comptes \ {compteBanque} :
                    r.db.comptes[c].soldeActuel = db.comptes[c].soldeActuel
             /\ r.db.transactionsBancaires[OperationLiee(db, r.db, tb)].montant = b

\* a banking-linked expense went from amount MaxMontant - 1 to MaxMontant:
\* the bank account, debited of MaxMontant by the cheque withdrawal, is one lower
UpdateLieeMontantsWitness ==
    /\ last.op = "updateTransaction"
    /\ last.ancien = "LIEE"
    /\ liees = 1
    /\ last.id \in DOMAIN db.transactions
    /\ db.transactions[last.id].type = "DEPENSE"
    /\ db.transactions[last.id].montant = MaxMontant
    /\ db.comptes[BanqueId].soldeActuel = soldeInitial[BanqueId] - MaxMontant - 1

\* C19: a served update that takes the banking-linked branch: when the
\* cheque number of the new description differs from the stored one, the
\* banking operation found is deleted and exactly one is inserted, a RETRAIT
\* with the new number, the new amount and description, on the same bank
\* account; when the number is the same, the banking operation keeps its id
\* and takes the new amount, description and date.  Either way no other
\* banking operation changes and the linked one's montant is the
\* transaction's.
UpdateLieeNumeroCheque ==
    \A id \in DOMAIN db.transactions, body \in TransactionPatches :
      \A userId \in Acteurs(body), compteCaisse \in findFirstCaisse(db),
         tb \in ChequeLie(db, id) :
        LET r == updateTransaction(db, userId, id, body, compteCaisse, tb)
            old == db.transactions[id]
            new == r.db.transactions[id]
            c == extractChequeNumber(old.description)
            cNew == extractChequeNumber(new.description)
            avant == db.transactionsBancaires
            apres == r.db.transactionsBancaires
            dateOperation == IF body.dateTransaction # 0
                             THEN body.dateTransaction ELSE avant[tb].dateOperation
        IN (Served(r) /\ BrancheLiee(db, id, tb))
           =>
             /\ (cNew # Null /\ cNew # c) =>
                  /\ tb \notin DOMAIN apres
                  /\ \E n \in DOMAIN apres \ DOMAIN avant :
                       /\ DOMAIN apres = (DOMAIN avant \ {tb}) \cup {n}
                       /\ apres[n] = [compteId |-> avant[tb].compteId,
                                      dateOperation |-> dateOperation,
                                      description |-> new.description,
                                      montant |-> new.montant,
                                      type |-> "RETRAIT",
                                      numeroCheque |-> cNew]
                  /\ \A x \in DOMAIN avant \ {tb} : apres[x] = avant[x]
             /\ cNew = c =>
                  /\ DOMAIN apres = DOMAIN avant
                  /\ apres[tb] = [avant[tb] EXCEPT !.montant = new.montant,
                                                   !.description = new.description,
                                                   !.dateOperation = dateOperation]
                  /\ \A x \in DOMAIN avant \ {tb} : apres[x] = avant[x]
             /\ (cNew # Null) =>
                  apres[OperationLiee(db, r.db, tb)].montant = new.montant

\* a banking-linked update changed the cheque number: the first banking
\* operation is gone and a second one carries the new number
UpdateLieeNumeroChequeWitness ==
    /\ last.op = "updateTransaction"
    /\ last.ancien = "LIEE"
    /\ liees = 1
    /\ DOMAIN db.transactionsBancaires = {2}
    /\ db.transactionsBancaires[2].numeroCheque = Cheque2
    /\ db.transactionsBancaires[2].type = "RETRAIT"
    /\ extractChequeNumber(db.transactions[last.id].description) = Cheque2

\* C20: an update of a transaction whose stored state is banking-linked while
\* no banking operation carries its cheque number is not failed for that: it
\* is answered as its validation decides, never with 500; when served it
\* moves the balances as a plain update does (old signed amount off the old
\* account, new signed amount onto the new account, so no bank account is
\* touched unless the transaction itself is on it) and no banking operation
\* is created, modified or deleted.
UpdateDegrade ==
    \A id \in DOMAIN db.transactions, body \in TransactionPatches :
      \A userId \in Acteurs(body), compteCaisse \in findFirstCaisse(db) :
        LET r == updateTransaction(db, userId, id, body, compteCaisse, 0)
            old == db.transactions[id]
            new == r.db.transactions[id]
        IN (/\ isTransactionBancaire(old.description, old.type)
            /\ ChequeLie(db, id) = {0})
           =>
             /\ r.status \in {200, 400, 403, 404}
             /\ Served(r) =>
                  /\ new = ApplyUpdateData(old, UpdateDataDe(db, userId, id, body))
                  /\ \A c \in DOMAIN db.comptes :
                         r.db.comptes[c].soldeActuel =
                             db.comptes[c].soldeActuel
                             - EffetTransaction(old, c) + EffetTransaction(new, c)
                  /\ \A c \in DOMAIN db.comptes \ {old.compteId, new.compteId} :
                         r.db.comptes[c].soldeActuel = db.comptes[c].soldeActuel
                  /\ r.db.transactionsBancaires = db.transactionsBancaires
                  /\ r.db.tbSeq = db.tbSeq

\* an expense carrying a cheque number no banking operation has was updated:
\* the cash account bears the expense alone and the bank account is as it was
UpdateDegradeWitness ==
    /\ last.op = "updateTransaction"
    /\ last.ancien = "LIEE"
    /\ last.status = 200
    /\ liees = 0
    /\ db.transactionsBancaires = EmptyTable
    /\ db.transactions[last.id].compteId = CaisseId
    /\ db.transactions[last.id].type = "DEPENSE"
    /\ db.transactions[last.id].montant = MaxMontant
    /\ db.comptes[CaisseId].soldeActuel = soldeInitial[CaisseId] - MaxMontant
    /\ db.comptes[BanqueId].soldeActuel = soldeInitial[BanqueId]

\* C29: every banking operation is attached to a compte of type BANQUE.
\* createTransactionBancaire checks the type when the row is inserted;
\* updateCompte changes the type of a compte whatever is attached to it.
TransactionBancaireSurBanque ==
    \A b \in DOMAIN db.transactionsBancaires :
        /\ db.transactionsBancaires[b].compteId \in DOMAIN db.comptes
        /\ db.comptes[db.transactionsBancaires[b].compteId].type = "BANQUE"

\* C30: every stored banking operation has a montant above zero.
\* createTransactionBancaire rejects any other; updateTransactionBancaire
\* does not look at the montant it is sent.
MontantBancairePositif ==
    \A b \in DOMAIN db.transactionsBancaires :
        db.transactionsBancaires[b].montant > 0

\* C22: a funding of a secretary compte by the administrator with a montant
\* m above zero, from an existing source compte that holds at least m, is
\* served; it takes m off the source, adds m to the secretary compte (the
\* two cancel when the source is the secretary compte itself), so that the
\* sum of the balances is what it was, and it records a DEPENSE of m on the
\* source and a RECETTE of m on the secretary compte.
AlimenterEffet ==
    \A userId \in DOMAIN db.users, id \in CompteIds, body \in AlimenterBodies :
      \A depense \in CategoriesTrouvees(db, "DEPENSE"),
         recette \in CategoriesTrouvees(db, "RECETTE") :
        LET r == alimenterCompteSecretaire(db, db, userId, id, body, depense, recette)
            m == body.montant
            source == body.compteSourceId
        IN (/\ db.users[userId].role = "ADMIN"
            /\ m > 0
            /\ db.comptes[id].type = "SECRETAIRE"
            /\ source \in DOMAIN db.comptes
            /\ db.comptes[source].soldeActuel >= m)
           =>
             /\ Served(r)
             /\ \A c \in DOMAIN db.comptes :
                    r.db.comptes[c].soldeActuel =
                        db.comptes[c].soldeActuel
                        - (IF c = source THEN m ELSE 0) + (IF c = id THEN m ELSE 0)
             /\ Somme(Soldes(r.db), DOMAIN r.db.comptes)
                    = Somme(Soldes(db), DOMAIN db.comptes)
             /\ DOMAIN r.db.transactions =
                    DOMAIN db.transactions \cup {db.txSeq + 1, db.txSeq + 2}
             /\ LET t1 == r.db.transactions[db.txSeq + 1]
                    t2 == r.db.transactions[db.txSeq + 2]
                IN /\ t1.type = "DEPENSE" /\ t1.montant = m /\ t1.compteId = source
                   /\ t2.type = "RECETTE" /\ t2.montant = m /\ t2.compteId = id

\* the transactions a recapitulation lists, all groups together
Listees(data) ==
    UNION { UNION { data.categories[c].sousCategories[sc].transactions :
                      sc \in DOMAIN data.categories[c].sousCategories } :
            c \in DOMAIN data.categories }

\* the sum of the montant of the transactions of S that are of the type
TotalMontants(d, S, type) ==
    LET T == {t \in S : d.transactions[t].type = type}
    IN Somme([t \in T |-> d.transactions[t].montant], T)

RecapitulationPortee ==
    \A userId \in DOMAIN db.users, dateDebut \in 1..MaxDate, dateFin \in 1..MaxDate :
        LET r == getRecapitulation(db, userId, dateDebut, dateFin)
            user == db.users[userId]
        IN \A t \in Listees(r.data) :
              /\ user.role = "SECRETAIRE" =>
                    /\ user.compteSecretaireId # 0
                    /\ db.transactions[t].compteId = user.compteSecretaireId
              /\ user.role = "ADMIN" =>
                    db.comptes[db.transactions[t].compteId].type # "SECRETAIRE"

\* the database a unit of work sees before its k-th write
AvantEcriture(k) == IF k = 1 THEN unite.avant ELSE unite.etapes[k - 1]

\* the k-th write of the unit adds x to the balance of compte c, nothing else
SoldeEcrit(k, c, x) == unite.etapes[k] = Increment(AvantEcriture(k), c, x)

\* the k-th write of the unit is on the transaction table, nothing else
TransactionEcrite(k) ==
    unite.etapes[k] = [AvantEcriture(k) EXCEPT
                         !.transactions = unite.etapes[k].transactions]

\* the k-th write of the unit is on the banking operations, nothing else
BancaireEcrite(k) ==
    unite.etapes[k] = [AvantEcriture(k) EXCEPT
                         !.transactionsBancaires =
                             unite.etapes[k].transactionsBancaires,
                         !.tbSeq = unite.etapes[k].tbSeq]

\* the unit is an update of transaction 1 that takes the banking-linked branch
UniteLiee ==
    /\ unite.op = "updateTransaction"
    /\ Len(unite.etapes) >= 7

\* the unit is a plain update of transaction 1 that changes its compte
UniteChangeCompte ==
    /\ unite.op = "updateTransaction"
    /\ Len(unite.etapes) = 3

Seule(d, r) ==
    IF r.op = "createTransaction"
    THEN createTransactionWithBalance(d, r.arg.data).db
    ELSE IF r.op = "updateTransaction"
    THEN updateTransactionSimple(d, r.arg.id, r.arg.data).db
    ELSE deleteTransactionWithBalance(d, r.arg.id).db

\* request r served alone on d is served
Servie(d, r) == r.op = "createTransaction" \/ r.arg.id \in DOMAIN d.transactions

\* the balances after r1 then r2, served one after the other on d
EnSerie(d, r1, r2) ==
    IF Servie(d, r1) /\ Servie(Seule(d, r1), r2)
    THEN {Soldes(Seule(Seule(d, r1), r2))}
    ELSE {}

\* C21: when two transaction-service operations served at the same time have
\* both committed, the balance of every compte is the one that one of the
\* two serial executions of the two operations leaves.
SansMiseAJourPerdue ==
    (\A p \in DOMAIN requetes : requetes[p].phase = "validee") =>
        LET d == requetes[1].origine
        IN Soldes(db) \in EnSerie(d, requetes[1], requetes[2])
                          \cup EnSerie(d, requetes[2], requetes[1])

\* C27: whatever the order in which two updates, or an update and a delete,
\* of the same banking operation are received and run their units of work,
\* once both are answered the cash and the bank balance are the initial ones
\* adjusted by the banking operations that exist.
BancaireSansInversePerimee ==
    (\A p \in DOMAIN requetes : requetes[p].phase # "lue") =>
        \A c \in {CaisseId, BanqueId} : db.comptes[c].soldeActuel = SoldeAttendu(c)

\* C28: once every funding received is answered, the balance of every compte
\* is its initial balance plus the transactions recorded on it: the ones the
\* fundings recorded and the ones created in between.
AlimentationSansEcrasement ==
    (\A p \in DOMAIN requetes : requetes[p].phase # "lue") =>
        \A c \in DOMAIN db.comptes :
            db.comptes[c].soldeActuel
                = soldeInitial[c]
                  + Somme([i \in DOMAIN db.transactions |->
                              EffetTransaction(db.transactions[i], c)],
                          DOMAIN db.transactions)

\* C25: with DECIMAL(15,2) columns read by parseFloat and written back from
\* doubles, a movement applied and then reversed leaves in the column exactly
\* the balance that was stored before, and once every movement applied has
\* been reversed the balance is the initial one, whatever the number of
\* movements in between.  (A movement whose result does not fit the column is
\* refused by the store and nothing is written.)
ReversibiliteExacte ==
    /\ (rt.phase = "deleted" /\ rt.table = "transaction" /\ last.op = "deleteTransaction")
           => db.comptes[CaisseId].soldeActuel = rt.soldes[CaisseId]
    /\ (DOMAIN db.transactions = {})
           => db.comptes[CaisseId].soldeActuel = soldeInitial[CaisseId]

\* a movement on a balance of thirteen integer digits was applied and then
\* reversed
ReversibiliteExacteWitness ==
    /\ rt.phase = "deleted"
    /\ rt.table = "transaction"
    /\ last.op = "deleteTransaction"
    /\ last.status = 200
    /\ db.txSeq = MaxCycles
    /\ CmpN(db.comptes[CaisseId].soldeActuel.cents, <<16384, 8436, 27596, 2>>) >= 0

----------------------------------------------------------------------------
(* updateTransaction: a patch that names a row that does not exist *)

\* an id no row of the table has
AbsentId(table) == CHOOSE i \in 1..(Cardinality(DOMAIN table) + 1) : i \notin DOMAIN table

\* req.body of an update that names an absent categorie, sous-categorie or
\* compte and sends nothing else
PatchesReferenceAbsente(d) ==
    { [categorieId |-> c, sousCategorieId |-> s, compteId |-> k,
       dateTransaction |-> 0, description |-> Undefined, montant |-> 0, type |-> ""] :
        c \in {0, AbsentId(d.categories)}, s \in {0, AbsentId(d.sousCategories)},
        k \in {0, AbsentId(d.comptes)} }
    \ { [categorieId |-> 0, sousCategorieId |-> 0, compteId |-> 0,
         dateTransaction |-> 0, description |-> Undefined, montant |-> 0, type |-> ""] }

\* C31: an update of an existing transaction whose patch names a categorie,
\* a sous-categorie or a compte that does not exist is answered 404 and
\* leaves the transaction rows and every balance as they were.
ReferenceAbsenteNotFound ==
    \A id \in DOMAIN db.transactions, compteCaisse \in findFirstCaisse(db) :
      \A tb \in ChequeLie(db, id), body \in PatchesReferenceAbsente(db) :
        LET r == updateTransaction(db, AdminUserId, id, body, compteCaisse, tb)
        IN r.status = 404 /\ r.db = db

\* C32: every stored transaction that is banking-linked (type DEPENSE, a
\* cheque number in its description) is recorded on the cash compte, the
\* compte on which the banking-linked update takes back and re-applies its
\* effect.
LieeSurCaisse ==
    \A id \in DOMAIN db.transactions :
        isTransactionBancaire(db.transactions[id].description, db.transactions[id].type)
            => db.transactions[id].compteId \in findFirstCaisse(db)

----------------------------------------------------------------------------
(* createTransactionBancaire received while another one is being served *)

\* deposits and withdrawals on the bank compte
CreationsBancairesConcurrentes ==
    { body \in BancaireBodies : body.montant \in Montants /\ body.compteId = BanqueId }

\* transactionBancaireController.js lines 71-117: the request is validated,
\* compteBanque and compteCaisse are read with their balances
RecevoirCreateTransactionBancaire ==
    \E p \in DOMAIN requetes, body \in CreationsBancairesConcurrentes,
       compteCaisse \in findFirstCaisse(db) :
        /\ requetes[p].phase = "aucune"
        /\ createTransactionBancaireCheck(db, body, compteCaisse) = 0
        /\ requetes' = [requetes EXCEPT ![p] =
                          Lue("createTransactionBancaire",
                              [id |-> 0, data |-> body, compteCaisse |-> compteCaisse],
                              db)]
        /\ UNCHANGED <<db, soldeInitial, last, rt, liees, unite, cache, horloge, recues>>

\* transactionBancaireController.js lines 120-188
RepondreCreateTransactionBancaire ==
    \E p \in DOMAIN requetes :
        /\ requetes[p].phase = "lue"
        /\ requetes[p].op = "createTransactionBancaire"
        /\ Repondre(p, createTransactionBancaire(db, requetes[p].lu.db,
                                                 requetes[p].arg.data,
                                                 requetes[p].arg.compteCaisse))

NextCreerBancaireConcurrent ==
    RecevoirCreateTransactionBancaire \/ RepondreCreateTransactionBancaire

SpecCreerBancaireConcurrent == Init /\ [][NextCreerBancaireConcurrent]_vars

\* C33: a banking operation is created only when the compte it debits (the
\* cash compte for a DEPOT, the bank compte for a RETRAIT) holds at least
\* the amount when the unit of work runs, whatever was committed since the
\* request read the balances; so the debited compte is never left negative.
CreationBancaireCouverte ==
    \A p \in DOMAIN requetes :
        (requetes[p].phase = "validee" /\ requetes[p].op = "createTransactionBancaire")
            => LET body == requetes[p].arg.data
                   debite == IF body.type = "DEPOT"
                             THEN requetes[p].arg.compteCaisse ELSE body.compteId
               IN requetes[p].avant.comptes[debite].soldeActuel >= body.montant

----------------------------------------------------------------------------
(* controllers/compteSecretaireController.js: transfererReste *)

\* lu is the database as the reads made before the prisma.$transaction saw
\* it, d the database the prisma.$transaction writes to; depense is the
\* <<categorie, sousCategorie>> the two findMany({ take: 1 }) return
transfererReste(d, lu, userId, id, body, depense) ==
    LET currentUser == lu.users[userId]
        compteDestinationId == body.compteDestinationId
        soldeActuel == lu.comptes[id].soldeActuel
        d1 == SetSolde(d, id, 0)
        d2 == Increment(d1, compteDestinationId, soldeActuel)
        t == [categorieId |-> depense[1], sousCategorieId |-> depense[2],
              compteId |-> id, dateTransaction |-> 1,
              description |-> IF body.description # Null THEN body.description
                              ELSE <<"Transfert">>,
              montant |-> soldeActuel, type |-> "DEPENSE"]
    IN IF currentUser.role # "SECRETAIRE"
       THEN Reject(d, 403)
       ELSE IF currentUser.compteSecretaireId # id
       THEN Reject(d, 403)
       ELSE IF id \notin DOMAIN lu.comptes
       THEN Reject(d, 404)
       ELSE IF lu.comptes[id].type # "SECRETAIRE"
       THEN Reject(d, 404)
       ELSE IF compteDestinationId \notin DOMAIN lu.comptes
       THEN Reject(d, 404)
       ELSE IF soldeActuel <= 0
       THEN Reject(d, 400)
       ELSE [status |-> 200, id |-> id,
             db |-> IF depense[1] # 0 /\ depense[2] # 0
                    THEN [d2 EXCEPT !.transactions = Put(@, d2.txSeq + 1, t),
                                    !.txSeq = @ + 1]
                    ELSE d2]

TransfertBodies ==
    { [compteDestinationId |-> c, description |-> Null] :
        c \in CompteIds \cup {AbsentCompteId} }

\* compteSecretaireController.js lines 303-342: the user and the two comptes
\* are read, the request is validated
RecevoirTransfererReste ==
    \E p \in DOMAIN requetes, userId \in DOMAIN db.users,
       id \in CompteIds, body \in TransfertBodies :
      \E depense \in CategoriesTrouvees(db, "DEPENSE") :
        /\ requetes[p].phase = "aucune"
        /\ Served(transfererReste(db, db, userId, id, body, depense))
        /\ requetes' = [requetes EXCEPT ![p] =
                          Lue("transfererReste",
                              [id |-> id, data |-> body, userId |-> userId], db)]
        /\ UNCHANGED <<db, soldeInitial, last, rt, liees, unite, cache, horloge, recues>>

\* compteSecretaireController.js lines 345-393
RepondreTransfererReste ==
    \E p \in DOMAIN requetes :
      \E depense \in CategoriesTrouvees(db, "DEPENSE") :
        /\ requetes[p].phase = "lue"
        /\ requetes[p].op = "transfererReste"
        /\ Repondre(p, transfererReste(db, requetes[p].lu.db, requetes[p].arg.userId,
                                       requetes[p].arg.id, requetes[p].arg.data,
                                       depense))

NextTransfert ==
    AlimenterCompteSecretaire \/ RecevoirTransfererReste \/ RepondreTransfererReste

\* fundings of the secretary compte, and transfers of what is left on it
SpecTransfert == Init /\ [][NextTransfert]_vars

\* C34: the unit of work of a transfer finds a balance s > 0 on the
\* secretary compte, leaves that compte at 0 and the destination compte
\* exactly s higher, and changes no other balance, whatever the destination
\* and whatever was committed since the request was received.
TransfertExact ==
    [][\A p \in DOMAIN requetes :
         (requetes[p].phase = "lue" /\ requetes[p].op = "transfererReste"
          /\ requetes'[p].phase = "validee")
            => LET id == requetes[p].arg.id
                   dest == requetes[p].arg.data.compteDestinationId
                   s == db.comptes[id].soldeActuel
               IN /\ s > 0
                  /\ db'.comptes[id].soldeActuel = 0
                  /\ db'.comptes[dest].soldeActuel = db.comptes[dest].soldeActuel + s
                  /\ \A c \in DOMAIN db.comptes \ {id, dest} :
                        db'.comptes[c].soldeActuel = db.comptes[c].soldeActuel]_vars

\* the users with role SECRETAIRE
Secretaires(d) == {u \in DOMAIN d.users : d.users[u].role = "SECRETAIRE"}

\* C35: a transaction that a create or an update request of a SECRETAIRE
\* actor has written is never of type RECETTE.
SecretaireDepensesSeulement ==
    \A userId \in Secretaires(db) :
        /\ \A body \in TransactionBodies :
              LET r == createTransaction(db, userId, body)
              IN Served(r) => r.db.transactions[r.id].type # "RECETTE"
        /\ \A id \in DOMAIN db.transactions, compteCaisse \in findFirstCaisse(db) :
             \A tb \in ChequeLie(db, id), body \in TransactionPatches :
              LET r == updateTransaction(db, userId, id, body, compteCaisse, tb)
              IN Served(r) => r.db.transactions[id].type # "RECETTE"

\* what a served request r of a user whose secretary compte is `own` (0 =
\* none) may have changed on d: transactions on that compte, and its balance
PorteeSecretaire(d, r, own) ==
    /\ \A c \in DOMAIN d.comptes \ {own} :
          r.db.comptes[c].soldeActuel = d.comptes[c].soldeActuel
    /\ r.db.transactionsBancaires = d.transactionsBancaires
    /\ \A t \in DOMAIN d.transactions \cup DOMAIN r.db.transactions :
          IF t \in DOMAIN d.transactions /\ t \in DOMAIN r.db.transactions
          THEN \/ r.db.transactions[t] = d.transactions[t]
               \/ d.transactions[t].compteId = own /\ r.db.transactions[t].compteId = own
          ELSE IF t \in DOMAIN d.transactions
          THEN d.transactions[t].compteId = own
          ELSE r.db.transactions[t].compteId = own

\* C36: a transaction create, update or delete request of a SECRETAIRE actor
\* that is served creates, modifies or deletes only transactions on the
\* secretary compte linked to that actor, changes the balance of no other
\* compte and touches no banking operation.
SecretaireSurSonCompte ==
    \A userId \in Secretaires(db) :
      LET own == db.users[userId].compteSecretaireId
      IN /\ \A body \in TransactionBodies :
              LET r == createTransaction(db, userId, body)
              IN Served(r) => PorteeSecretaire(db, r, own)
         /\ \A id \in DOMAIN db.transactions, compteCaisse \in findFirstCaisse(db) :
              \A tb \in ChequeLie(db, id), body \in TransactionPatches :
                LET r == updateTransaction(db, userId, id, body, compteCaisse, tb)
                IN Served(r) => PorteeSecretaire(db, r, own)
         /\ \A id \in DOMAIN db.transactions :
              LET r == deleteTransaction(db, userId, id)
              IN Served(r) => PorteeSecretaire(db, r, own)

----------------------------------------------------------------------------
(* middleware/cache.js and middleware/cacheInvalidation.js.  The text of a  *)
(* cache key or of an invalidation pattern is the sequence of its pieces;   *)
(* times are in units of ten seconds.  `cache` lists the entries of the Map *)
(* in the order in which their keys were inserted.                          *)

MAX_CACHE_SIZE == 2         \* entries the Map holds at most (cache.js line 17 has 1000)
DEFAULT_TTL == 30           \* 5 * 60 * 1000 ms
TtlTransactions == 6        \* cacheMiddleware(1 * 60 * 1000)
TtlMonCompte == 1           \* cacheMiddleware(10 * 1000)
IntervalleNettoyage == 60   \* setInterval(cleanupCache, 10 * 60 * 1000)
MaxHorloge == 60            \* the clock is followed for ten minutes
MaxConsultations == 3       \* GET requests received in a behaviour

\* the GET requests sent: originalUrl, JSON.stringify(req.query), what the
\* handler takes from req.query and req.params, and the handler of the route
Consultations ==
    { [method |-> "GET", originalUrl |-> <<"/api", "/transactions">>, query |-> "{}",
       compteId |-> 0, id |-> 0, route |-> "getAllTransactions"],
      [method |-> "GET", originalUrl |-> <<"/api", "/transactions", "?compteId=1">>,
       query |-> "{\"compteId\":\"1\"}",
       compteId |-> CaisseId, id |-> 0, route |-> "getAllTransactions"],
      [method |-> "GET", originalUrl |-> <<"/api", "/transactions", "/", "1">>,
       query |-> "{}",
       compteId |-> 0, id |-> 1, route |-> "getTransactionById"],
      [method |-> "GET",
       originalUrl |-> <<"/api", "/comptes", "-secretaires", "/", "mon-compte">>,
       query |-> "{}",
       compteId |-> 0, id |-> 0, route |-> "getMonCompteSecretaire"] }

\* `${req.method}_${path}_${queryString}`
generateCacheKey(req) == <<req.method, "_">> \o req.originalUrl \o <<"_", req.query>>

\* the ttl given to cacheMiddleware on the route
Ttl(req) ==
    IF req.route = "getMonCompteSecretaire" THEN TtlMonCompte ELSE TtlTransactions

\* res.json bodies
successResponse(data) == [statusCode |-> 200, success |-> TRUE, data |-> data]
notFoundResponse == [statusCode |-> 404, success |-> FALSE, data |-> Null]

\* a transaction with include: { compte: true }
AvecCompte(d, t) ==
    [id |-> t, transaction |-> d.transactions[t],
     compte |-> d.comptes[d.transactions[t].compteId]]

\* orderBy: [{ dateTransaction: 'desc' }, { id: 'desc' }]
RECURSIVE orderBy(_, _)
orderBy(d, ids) ==
    IF ids = {} THEN <<>>
    ELSE LET premier ==
               CHOOSE t \in ids :
                 \A u \in ids \ {t} :
                    \/ d.transactions[t].dateTransaction > d.transactions[u].dateTransaction
                    \/ /\ d.transactions[t].dateTransaction
                            = d.transactions[u].dateTransaction
                       /\ t > u
         IN <<AvecCompte(d, premier)>> \o orderBy(d, ids \ {premier})

\* transactionController.js lines 15-66
getAllTransactions(d, userId, req) ==
    LET currentUser == d.users[userId]
        compteId == IF currentUser.role = "SECRETAIRE" /\ currentUser.compteSecretaireId # 0
                    THEN currentUser.compteSecretaireId
                    ELSE req.compteId
        found == {t \in DOMAIN d.transactions :
                    compteId = 0 \/ d.transactions[t].compteId = compteId}
    IN successResponse(orderBy(d, found))

\* transactionController.js lines 73-97
getTransactionById(d, req) ==
    IF req.id \notin DOMAIN d.transactions
    THEN notFoundResponse
    ELSE successResponse(AvecCompte(d, req.id))

\* compteSecretaireController.js lines 404-420
getMonCompteSecretaire(d, userId) ==
    LET currentUser == d.users[userId]
    IN IF currentUser.role # "SECRETAIRE" \/ currentUser.compteSecretaireId = 0
       THEN notFoundResponse
       ELSE successResponse([id |-> currentUser.compteSecretaireId,
                             compte |-> d.comptes[currentUser.compteSecretaireId]])

\* the body the handler of the route computes for the user on d
Calculee(d, userId, req) ==
    CASE req.route = "getAllTransactions" -> getAllTransactions(d, userId, req)
      [] req.route = "getTransactionById" -> getTransactionById(d, req)
      [] OTHER -> getMonCompteSecretaire(d, userId)

\* Map: keys, get (0 = undefined), delete, set
Cles(c) == {c[i].key : i \in DOMAIN c}

cacheGet(c, key) ==
    IF key \in Cles(c) THEN CHOOSE i \in DOMAIN c : c[i].key = key ELSE 0

cacheDelete(c, key) ==
    LET Autre(e) == e.key # key
    IN SelectSeq(c, Autre)

cacheSet(c, key, value) ==
    IF cacheGet(c, key) # 0
    THEN [c EXCEPT ![cacheGet(c, key)] = value]
    ELSE Append(c, value)

\* variant: the entry is stored without making room for it
cacheMiddlewareJsonSansEviction(c, key, data, now, lu) ==
    IF data.statusCode = 200 /\ data.success # FALSE
    THEN cacheSet(c, key, [key |-> key, data |-> data, timestamp |-> now, lu |-> lu])
    ELSE c

\* the res.json installed by cacheMiddleware (cache.js lines 61-80); lu is
\* the database the handler read data from (history)
cacheMiddlewareJson(c, key, data, now, lu) ==
    IF data.statusCode = 200 /\ data.success # FALSE
    THEN LET c1 == IF Len(c) >= MAX_CACHE_SIZE THEN Tail(c) ELSE c
         IN cacheSet(c1, key, [key |-> key, data |-> data, timestamp |-> now, lu |-> lu])
    ELSE c

\* new RegExp(pattern).test(key), for patterns without special characters
test(pattern, key) ==
    \E i \in 1..(Len(key) - Len(pattern) + 1) :
        SubSeq(key, i, i + Len(pattern) - 1) = pattern

\* cache.js lines 89-102
invalidateCache(c, pattern) ==
    LET Garde(e) == ~test(pattern, e.key)
    IN SelectSeq(c, Garde)

\* cache.js lines 117-133
cleanupCache(c, now) ==
    LET Garde(e) == ~(now - e.timestamp > DEFAULT_TTL)
    IN SelectSeq(c, Garde)

\* finalPattern.replace(`:id`, req.params.id)
replace(pattern, id) ==
    [i \in DOMAIN pattern |-> IF pattern[i] = ":id" THEN ToString(id) ELSE pattern[i]]

\* the patterns of router.post('/') and of router.put('/:id'), router.delete('/:id')
PatternsPost ==
    << <<"GET", "_", "/api", "/transactions">>,
       <<"GET", "_", "/api", "/transactions", "/", "stats">>,
       <<"GET", "_", "/api", "/comptes">> >>

PatternsId ==
    << <<"GET", "_", "/api", "/transactions">>,
       <<"GET", "_", "/api", "/transactions", "/", ":id">>,
       <<"GET", "_", "/api", "/transactions", "/", "stats">>,
       <<"GET", "_", "/api", "/comptes">> >>

\* the res.json installed by createCacheInvalidation (lines 16-32); id is
\* req.params.id, 0 when the route has no parameter
RECURSIVE createCacheInvalidation(_, _, _, _)
createCacheInvalidation(c, patterns, id, statusCode) ==
    IF ~(statusCode >= 200 /\ statusCode < 300) \/ patterns = <<>>
    THEN c
    ELSE createCacheInvalidation(
             invalidateCache(c, IF id # 0 THEN replace(Head(patterns), id)
                                ELSE Head(patterns)),
             Tail(patterns), id, statusCode)

\* history of the last GET request answered, until the next commit: the
\* body received and the database the body was computed from (origine)
Consultee(userId, req, recu, origine, hit) ==
    [RequeteAucune EXCEPT
        !.phase = "servie", !.op = "GET",
        !.arg = [userId |-> userId, req |-> req, recu |-> recu],
        !.origine = origine,
        !.pc = IF hit THEN 1 ELSE 0, !.status = recu.statusCode]

\* the requests still in flight
EnCours(r) == [q \in DOMAIN r |-> IF r[q].phase = "servie" THEN RequeteAucune ELSE r[q]]

\* the slot a request received takes: the first one not in flight (0 = none)
Libre(r) ==
    LET libres == {q \in DOMAIN r : r[q].phase \in {"aucune", "servie"}}
    IN IF libres = {} THEN 0 ELSE CHOOSE q \in libres : \A o \in libres : q <= o

\* cache.js lines 32-57 and 82: the entry of the key is served if it is
\* younger than ttl; if not it is deleted and the handler reads the database
RecevoirConsultation ==
    \E p \in DOMAIN requetes, userId \in DOMAIN db.users, req \in Consultations :
        LET cacheKey == generateCacheKey(req)
            i == cacheGet(cache, cacheKey)
        IN /\ recues < MaxConsultations
           /\ recues' = recues + 1
           /\ p = Libre(requetes)
           /\ IF i # 0 /\ horloge - cache[i].timestamp < Ttl(req)
              THEN /\ requetes' = [EnCours(requetes) EXCEPT ![p] =
                                     Consultee(userId, req, cache[i].data, cache[i].lu,
                                               TRUE)]
                   /\ last' = [op |-> "GET", status |-> cache[i].data.statusCode,
                               id |-> p, ancien |-> "hit"]
                   /\ UNCHANGED cache
              ELSE /\ requetes' = [requetes EXCEPT ![p] =
                                     Lue("GET", [userId |-> userId, req |-> req], db)]
                   /\ cache' = cacheDelete(cache, cacheKey)
                   /\ UNCHANGED last
           /\ UNCHANGED <<db, soldeInitial, rt, liees, unite, horloge>>

\* the handler's res.json: cache.js lines 61-80
RepondreConsultation ==
    \E p \in DOMAIN requetes :
        /\ requetes[p].phase = "lue"
        /\ requetes[p].op = "GET"
        /\ LET userId == requetes[p].arg.userId
               req == requetes[p].arg.req
               data == Calculee(requetes[p].lu.db, userId, req)
           IN /\ cache' = cacheMiddlewareJson(cache, generateCacheKey(req), data, horloge,
                                              requetes[p].lu.db)
              /\ requetes' = [EnCours(requetes) EXCEPT ![p] =
                                Consultee(userId, req, data, requetes[p].lu.db, FALSE)]
              /\ last' = [op |-> "GET", status |-> data.statusCode, id |-> p,
                          ancien |-> IF /\ Len(cache) >= MAX_CACHE_SIZE
                                        /\ generateCacheKey(req) \notin Cles(cache)
                                        /\ data.statusCode = 200
                                     THEN "plein" ELSE "miss"]
        /\ UNCHANGED <<db, soldeInitial, rt, liees, unite, horloge, recues>>

\* plain expenses of 1 on the cash compte
CreationsEnCache ==
    { body \in TransactionBodies :
        /\ body.categorieId = 1 /\ body.sousCategorieId = 1
        /\ body.compteId = CaisseId
        /\ body.description = Null /\ body.montant = 1 /\ body.type = "DEPENSE" }

\* patches of the montant alone
RetouchesEnCache ==
    { body \in TransactionPatches :
        /\ body.montant = MaxMontant /\ FieldsSent(body) = 1 }

\* a create, update or delete of the transaction routes answered: the
\* database is committed, then res.json invalidates and sends the response
RepondreMutation(op, r, patterns, id) ==
    /\ db' = r.db
    /\ cache' = createCacheInvalidation(cache, patterns, id, r.status)
    /\ last' = [op |-> op, status |-> r.status, id |-> r.id, ancien |-> ""]
    /\ requetes' = EnCours(requetes)
    /\ UNCHANGED <<soldeInitial, rt, liees, unite, horloge, recues>>

\* router.post('/', createCacheInvalidation(...), createTransaction)
PostTransaction ==
    \E body \in CreationsEnCache : \E userId \in Acteurs(body) :
        \E r \in {createTransaction(db, userId, body)} :
           /\ db.txSeq < MaxTx
           /\ Served(r)
           /\ RepondreMutation("createTransaction", r, PatternsPost, 0)

\* router.put('/:id', createCacheInvalidation(...), updateTransaction)
PutTransaction ==
    \E id \in DOMAIN db.transactions, compteCaisse \in findFirstCaisse(db) :
      \E tb \in ChequeLie(db, id), body \in RetouchesEnCache :
        \E userId \in Acteurs(body) :
        \E r \in {updateTransaction(db, userId, id, body, compteCaisse, tb)} :
           /\ Served(r)
           /\ r.db # db
           /\ RepondreMutation("updateTransaction", r, PatternsId, id)

\* router.delete('/:id', createCacheInvalidation(...), deleteTransaction)
DeleteTransactionRoute ==
    \E userId \in DOMAIN db.users, id \in DOMAIN db.transactions :
        \E r \in {deleteTransaction(db, userId, id)} :
           /\ Served(r)
           /\ RepondreMutation("deleteTransaction", r, PatternsId, id)

\* time passes
Attendre ==
    /\ horloge + DEFAULT_TTL <= MaxHorloge
    /\ horloge' = horloge + DEFAULT_TTL
    /\ UNCHANGED <<db, soldeInitial, last, rt, liees, unite, requetes, cache, recues>>

\* setInterval(cleanupCache, 10 * 60 * 1000)
Nettoyer ==
    /\ horloge > 0
    /\ horloge % IntervalleNettoyage = 0
    /\ cache' = cleanupCache(cache, horloge)
    /\ UNCHANGED <<db, soldeInitial, last, rt, liees, unite, requetes, horloge, recues>>

NextCache ==
    \/ RecevoirConsultation \/ RepondreConsultation
    \/ PostTransaction \/ PutTransaction \/ DeleteTransactionRoute
    \/ Attendre \/ Nettoyer

\* GET requests through the cache, and the mutations that invalidate it
SpecCache == Init /\ [][NextCache]_vars

\* C37: the body a GET request receives is the body its handler computes for
\* the user who sent it (on the database the body was computed from),
\* whoever asked for the same key before.
CacheParActeur ==
    \A p \in DOMAIN requetes :
        (requetes[p].phase = "servie" /\ requetes[p].op = "GET")
            => requetes[p].arg.recu
                 = Calculee(requetes[p].origine, requetes[p].arg.userId,
                            requetes[p].arg.req)

\* the key is matched by a pattern that every transaction mutation invalidates
Invalidee(key) == \E i \in DOMAIN PatternsPost : test(PatternsPost[i], key)

\* C38: a GET request whose key the transaction routes invalidate is never
\* answered from a cache entry whose data was read before a create, update or
\* delete that has already sent its 2xx response: the body served from the
\* cache was read from the database as it is since the last mutation.
CacheCoherent ==
    \A p \in DOMAIN requetes :
        ( /\ requetes[p].phase = "servie"
          /\ requetes[p].op = "GET"
          /\ requetes[p].pc = 1
          /\ Invalidee(generateCacheKey(requetes[p].arg.req)) )
            => requetes[p].origine = db

\* C39: the cache never holds more than MAX_CACHE_SIZE entries, and storing
\* the response of a key that is not in a full cache removes the entry whose
\* key was inserted first, keeps the others in their order and puts the new
\* entry last.
CacheBorne ==
    /\ Len(cache) <= MAX_CACHE_SIZE
    /\ \A userId \in DOMAIN db.users, req \in Consultations :
         LET key == generateCacheKey(req)
             data == Calculee(db, userId, req)
             c2 == cacheMiddlewareJson(cache, key, data, horloge, db)
         IN /\ Len(c2) <= MAX_CACHE_SIZE
            /\ ( /\ Len(cache) >= MAX_CACHE_SIZE
                 /\ key \notin Cles(cache)
                 /\ data.statusCode = 200 )
                 => /\ Len(c2) = Len(cache)
                    /\ cache[1].key \notin Cles(c2)
                    /\ \A i \in 2..Len(cache) : c2[i - 1] = cache[i]
                    /\ c2[Len(c2)].key = key
                    /\ c2[Len(c2)].data = data

\* a response was stored under a new key while the cache was full
CacheBorneWitness ==
    /\ last.op = "GET"
    /\ last.ancien = "plein"
    /\ requetes[last.id].phase = "servie"
    /\ Len(cache) = MAX_CACHE_SIZE
    /\ cache[Len(cache)].key = generateCacheKey(requetes[last.id].arg.req)

====
